---- MODULE Spec2Model ----
(***************************************************************************)
(* A model of package cqcode of qq-bot-api (src/cqcode/cqcode.go): the     *)
(* CQ-code escaping primitives, the marker parser and formatter, the       *)
(* string <-> Message conversions and the command predicate.               *)
(*                                                                         *)
(* Go strings are TLA+ strings (ASCII only), indexed from 1; a Go slice    *)
(* s[lo:hi] is SubSeq(s, lo + 1, hi).  The package is a library of         *)
(* synchronous functions: the state is the package variable StrictCommand  *)
(* and the call the embedding application has in progress: the application *)
(* makes one call at a time and takes its results before the next one.     *)
(***************************************************************************)
EXTENDS Integers, Sequences, FiniteSets, TLC

VARIABLES
    StrictCommand,  \* cqcode.go:17, the package-level flag
    ret,            \* the call in progress: operation, arguments, results
    hook,           \* bot.go:608-642, the webhook: secret, requests, channel
    ws,             \* bot.go:126-147 and 214-250, the WebSocket API client
    ev              \* ev.go, the event emitter

vars == <<StrictCommand, ret, hook, ws, ev>>

(***************************************************************************)
(* Bounds of the inputs the calls are made with.                           *)
(***************************************************************************)
MaxFrags == 2       \* fragments concatenated into a plain input string
MaxParts == 3       \* fragments (text runs, markers) in a payload string
MaxPairs == 2       \* key=value pairs listed in a generated marker
MaxPopulated == 2   \* fields of an element holding a non-zero value
MaxMsgLen == 2      \* elements of a Message
MaxWords == 2       \* words after the first one in a command string
MaxSlashes == 2     \* "/" on each side of a face name
MaxCalls == 3       \* EnableCache and DisableCache calls on one element
MaxChain == 2       \* media appended by the builder calls chained on one sender
MaxRequests == 3    \* requests the webhook receives
Buffer == 2         \* capacity of the updates channel (bot.Buffer)
MaxOn == 2          \* subscriptions made with On
MaxUpdates == 1     \* updates put on the channel the emitter reads
MaxRequesters == 2  \* goroutines calling makeWSRequest
MaxResponses == 2   \* responses the API websocket delivers

(***************************************************************************)
(* package strings                                                         *)
(***************************************************************************)
CharAt(s, i) == SubSeq(s, i, i)

HasPrefixAt(s, p, i) ==
    /\ i + Len(p) - 1 <= Len(s)
    /\ SubSeq(s, i, i + Len(p) - 1) = p

\* The first index >= i at which p occurs in s, 0 when there is none.
RECURSIVE IndexFrom(_, _, _)
IndexFrom(s, p, i) ==
    IF i + Len(p) - 1 > Len(s) THEN 0
    ELSE IF HasPrefixAt(s, p, i) THEN i
    ELSE IndexFrom(s, p, i + 1)

\* strings.Replace(s, old, new, -1) for a non-empty old: the occurrences are
\* taken left to right, without overlap, and the replacement is not rescanned.
RECURSIVE ReplaceFrom(_, _, _, _)
ReplaceFrom(s, old, new, i) ==
    LET j == IndexFrom(s, old, i)
    IN  IF j = 0 THEN SubSeq(s, i, Len(s))
        ELSE SubSeq(s, i, j - 1) \o new \o ReplaceFrom(s, old, new, j + Len(old))

Replace(s, old, new) == ReplaceFrom(s, old, new, 1)

\* strings.Split(s, sep) for a non-empty sep: always at least one piece.
RECURSIVE SplitFrom(_, _, _)
SplitFrom(s, sep, i) ==
    LET j == IndexFrom(s, sep, i)
    IN  IF j = 0 THEN <<SubSeq(s, i, Len(s))>>
        ELSE <<SubSeq(s, i, j - 1)>> \o SplitFrom(s, sep, j + Len(sep))

Split(s, sep) == SplitFrom(s, sep, 1)

\* strings.Join(a, sep)
RECURSIVE Join(_, _)
Join(a, sep) ==
    IF Len(a) = 0 THEN ""
    ELSE IF Len(a) = 1 THEN a[1]
    ELSE a[1] \o sep \o Join(Tail(a), sep)

(***************************************************************************)
(* The escaping primitives, cqcode.go:621-653                              *)
(***************************************************************************)
\* EncodeCQText without the two bracket substitutions.
EncodeCQText_AmpOnly(str) == Replace(str, "&", "&amp;")

EncodeCQText(str) ==
    LET s1 == Replace(str, "&", "&amp;")
        s2 == Replace(s1, "[", "&#91;")
    IN  Replace(s2, "]", "&#93;")

DecodeCQText(str) ==
    LET s1 == Replace(str, "&#93;", "]")
        s2 == Replace(s1, "&#91;", "[")
    IN  Replace(s2, "&amp;", "&")

EncodeCQCodeText(str) ==
    LET s1 == Replace(str, "&", "&amp;")
        s2 == Replace(s1, "[", "&#91;")
        s3 == Replace(s2, "]", "&#93;")
    IN  Replace(s3, ",", "&#44;")

\* DecodeCQCodeText with the ampersand unescaped first.
DecodeCQCodeText_AmpFirst(str) ==
    LET s0 == Replace(str, "&amp;", "&")
        s1 == Replace(s0, "&#44;", ",")
        s2 == Replace(s1, "&#93;", "]")
    IN  Replace(s2, "&#91;", "[")

DecodeCQCodeText(str) ==
    LET s1 == Replace(str, "&#44;", ",")
        s2 == Replace(s1, "&#93;", "]")
        s3 == Replace(s2, "&#91;", "[")
    IN  Replace(s3, "&amp;", "&")

(***************************************************************************)
(* Go values.  A value is a string, an int or a bool (the field types of   *)
(* the media structs, and what a map[string]interface{} holds here).       *)
(***************************************************************************)
StrV(s) == [t |-> "string", s |-> s, i |-> 0, b |-> FALSE]
IntV(i) == [t |-> "int", s |-> "", i |-> i, b |-> FALSE]
BoolV(b) == [t |-> "bool", s |-> "", i |-> 0, b |-> b]

ZeroV(ty) ==
    CASE ty = "string" -> StrV("")
      [] ty = "int" -> IntV(0)
      [] ty = "bool" -> BoolV(FALSE)

Digits == "0123456789"

\* strconv.Itoa
RECURSIVE FormatUint(_)
FormatUint(n) ==
    IF n < 10 THEN CharAt(Digits, n + 1)
    ELSE FormatUint(n \div 10) \o CharAt(Digits, (n % 10) + 1)

Itoa(n) == IF n < 0 THEN "-" \o FormatUint(0 - n) ELSE FormatUint(n)

\* fmt.Sprint of a value: a string as it is, an int in decimal, a bool as
\* true or false.
Sprint(v) ==
    CASE v.t = "string" -> v.s
      [] v.t = "int" -> Itoa(v.i)
      [] v.t = "bool" -> IF v.b THEN "true" ELSE "false"

\* The value of a digit in bases up to 16, -1 for any other character.
DigitVal(c) ==
    IF c \in {"A", "B", "C", "D", "E", "F"}
    THEN IndexFrom("0123456789ABCDEF", c, 1) - 1
    ELSE IndexFrom("0123456789abcdef", c, 1) - 1

\* The digits s[i..] read in the given base onto acc; -1 on a character that
\* is no digit of the base.
RECURSIVE ParseDigits(_, _, _, _)
ParseDigits(s, i, base, acc) ==
    IF i > Len(s) THEN acc
    ELSE IF DigitVal(CharAt(s, i)) \notin 0..(base - 1) THEN 0 - 1
    ELSE ParseDigits(s, i + 1, base, acc * base + DigitVal(CharAt(s, i)))

\* strconv.ParseUint(s, 0, 64): 0x is hexadecimal, a leading 0 is octal,
\* anything else decimal.  [ok, n].
UintResult(n) == IF n < 0 THEN [ok |-> FALSE, n |-> 0] ELSE [ok |-> TRUE, n |-> n]

ParseUint(s) ==
    IF Len(s) = 0 THEN [ok |-> FALSE, n |-> 0]
    ELSE IF Len(s) > 1 /\ CharAt(s, 1) = "0" /\ CharAt(s, 2) \in {"x", "X"}
    THEN UintResult(IF Len(s) < 3 THEN 0 - 1 ELSE ParseDigits(s, 3, 16, 0))
    ELSE UintResult(ParseDigits(s, IF CharAt(s, 1) = "0" THEN 2 ELSE 1,
                                IF CharAt(s, 1) = "0" THEN 8 ELSE 10, 0))

\* strconv.ParseInt(s, 0, 64): an optional sign, then ParseUint.
IntResult(u, neg) ==
    IF ~u.ok THEN u ELSE [ok |-> TRUE, n |-> IF neg THEN 0 - u.n ELSE u.n]

ParseInt(s) ==
    IF Len(s) = 0 THEN [ok |-> FALSE, n |-> 0]
    ELSE IntResult(ParseUint(IF CharAt(s, 1) \in {"+", "-"}
                             THEN SubSeq(s, 2, Len(s)) ELSE s),
                   CharAt(s, 1) = "-")

\* strconv.ParseBool
ParseBool(s) ==
    IF s \in {"1", "t", "T", "TRUE", "true", "True"} THEN [ok |-> TRUE, b |-> TRUE]
    ELSE IF s \in {"0", "f", "F", "FALSE", "false", "False"} THEN [ok |-> TRUE, b |-> FALSE]
    ELSE [ok |-> FALSE, b |-> FALSE]

(***************************************************************************)
(* Media, cqcode.go:440-619.  A media value is [gotype, Type, Data]:       *)
(* gotype is its Go type; for a struct Data maps each cq tag to the        *)
(* field's value and StructFields gives the declared order and types; for  *)
(* a MessageSegment Type and Data are its two fields (cqcode.go:24-27).    *)
(***************************************************************************)
StructFields(gotype) ==
    CASE gotype = "Text" -> << <<"text", "string">> >>
      [] gotype = "At" -> << <<"qq", "string">> >>
      [] gotype = "Face" -> << <<"id", "int">> >>
      [] gotype = "Emoji" -> << <<"id", "int">> >>
      [] gotype = "Bface" -> << <<"id", "int">> >>
      [] gotype = "Sface" -> << <<"id", "int">> >>
      [] gotype = "Image" -> << <<"file", "string">>, <<"url", "string">> >>
      [] gotype = "Record" ->
            << <<"file", "string">>, <<"magic", "bool">>, <<"url", "string">> >>
      [] gotype = "Rps" -> << <<"type", "int">> >>
      [] gotype = "Dice" -> << <<"type", "int">> >>
      [] gotype = "Music" ->
            << <<"type", "string">>, <<"id", "string">>, <<"url", "string">>,
               <<"audio", "string">>, <<"title", "string">>,
               <<"content", "string">>, <<"image", "string">> >>
      [] gotype = "Share" ->
            << <<"url", "string">>, <<"title", "string">>,
               <<"content", "string">>, <<"image", "string">> >>
      [] OTHER -> << >>   \* Shake, Location, Show, Sign, Rich

StructTypes ==
    { "Text", "At", "Face", "Emoji", "Bface", "Sface", "Image", "Record", "Rps",
      "Dice", "Shake", "Music", "Share", "Location", "Show", "Sign", "Rich" }

\* The FunctionName method of each struct type.
FunctionNameOf(gotype) ==
    CASE gotype = "Text" -> "text"
      [] gotype = "At" -> "at"
      [] gotype = "Face" -> "face"
      [] gotype = "Emoji" -> "emoji"
      [] gotype = "Bface" -> "bface"
      [] gotype = "Sface" -> "sface"
      [] gotype = "Image" -> "image"
      [] gotype = "Record" -> "record"
      [] gotype = "Rps" -> "rps"
      [] gotype = "Dice" -> "dice"
      [] gotype = "Shake" -> "shake"
      [] gotype = "Music" -> "music"
      [] gotype = "Share" -> "share"
      [] gotype = "Location" -> "location"
      [] gotype = "Show" -> "show"
      [] gotype = "Sign" -> "sign"
      [] gotype = "Rich" -> "rich"

FunctionName(media) ==
    IF media.gotype = "MessageSegment" THEN media.Type
    ELSE FunctionNameOf(media.gotype)

Tags(gotype) == { StructFields(gotype)[i][1] : i \in 1..Len(StructFields(gotype)) }

TypeOfTag(gotype, tag) ==
    LET f == StructFields(gotype)
    IN  f[CHOOSE i \in 1..Len(f) : f[i][1] = tag][2]

EmptyData == [k \in {} |-> StrV("")]

\* The zero value of a struct type, e.g. Face{}.
ZeroStruct(gotype) ==
    [gotype |-> gotype, Type |-> "",
     Data |-> [k \in Tags(gotype) |-> ZeroV(TypeOfTag(gotype, k))]]

MessageSegment(type, data) == [gotype |-> "MessageSegment", Type |-> type, Data |-> data]

\* m[k] = v
MapPut(m, k, v) == [x \in (DOMAIN m) \cup {k} |-> IF x = k THEN v ELSE m[x]]

\* The keys of a map in the order one range statement visits them: Go leaves
\* the order open, ord (a sequence holding every key once) fixes it for a call.
RangeKeys(m, ord) == SelectSeq(ord, LAMBDA k : k \in DOMAIN m)

(***************************************************************************)
(* FormatCQCode, cqcode.go:389-438                                         *)
(***************************************************************************)
\* helpers.go:10-36: NetImage and NetRecord embed a pointer to the inner
\* element and a pointer to a NetResource, which holds the cache flag.
CacheEnabled == 1
CacheDisabled == 0

NetTypes == {"NetImage", "NetRecord"}

InnerOf(gotype) == IF gotype = "NetImage" THEN "Image" ELSE "Record"

NetResource(cache) ==
    [gotype |-> "NetResource", Type |-> "", Data |-> MapPut(EmptyData, "cache", IntV(cache))]

FieldsOf(gotype) ==
    IF gotype = "NetResource" THEN << <<"cache", "int">> >> ELSE StructFields(gotype)

\* fmt.Sprint of a pointer to a struct: "&" and the fields' values between
\* braces, separated by spaces.
SprintPointer(v) ==
    "&{" \o Join([i \in 1..Len(FieldsOf(v.gotype)) |-> Sprint(v.Data[FieldsOf(v.gotype)[i][1]])],
                 " ") \o "}"

\* The struct branch of FormatCQCode (lines 419-436) on a NetImage or a
\* NetRecord: the struct has two fields, the embedded pointers, neither
\* with a cq tag, so each is written under its Go name.
FormatEmbedded(media) ==
    "[CQ:" \o Join(<< FunctionNameOf(InnerOf(media.gotype)),
                      InnerOf(media.gotype) \o "="
                          \o EncodeCQCodeText(SprintPointer(media.Data[InnerOf(media.gotype)])),
                      "NetResource="
                          \o EncodeCQCodeText(SprintPointer(media.Data["NetResource"])) >>,
                   ",") \o "]"

\* The field written without escaping its value.
FormatKV_NoEscape(k, v) == k \o "=" \o Sprint(v)

\* fmt.Sprintf("%s=%s", k, EncodeCQCodeText(fmt.Sprint(v)))
FormatKV(k, v) == k \o "=" \o EncodeCQCodeText(Sprint(v))

\* The encoding that leaves out the fields holding their zero value.
FormatCQCode_OmitZero(media, ord) ==
    IF media.gotype = "MessageSegment" THEN
        IF media.Type = "text" THEN
            IF "text" \notin DOMAIN media.Data THEN ""
            ELSE EncodeCQText(Sprint(media.Data["text"]))
        ELSE
            LET keys == RangeKeys(media.Data, ord)
                strs == <<media.Type>> \o
                        [i \in 1..Len(keys) |-> FormatKV(keys[i], media.Data[keys[i]])]
            IN  "[CQ:" \o Join(strs, ",") \o "]"
    ELSE IF media.gotype = "Text" THEN
        EncodeCQText(media.Data["text"].s)
    ELSE
        LET f == SelectSeq(StructFields(media.gotype),
                           LAMBDA x : media.Data[x[1]] # ZeroV(x[2]))
            strs == <<FunctionName(media)>> \o
                    [i \in 1..Len(f) |-> FormatKV(f[i][1], media.Data[f[i][1]])]
        IN  "[CQ:" \o Join(strs, ",") \o "]"

FormatCQCode(media, ord) ==
    IF media.gotype \in NetTypes THEN FormatEmbedded(media)
    ELSE IF media.gotype = "MessageSegment" THEN
        IF media.Type = "text" THEN
            IF "text" \notin DOMAIN media.Data THEN ""
            ELSE EncodeCQText(Sprint(media.Data["text"]))
        ELSE
            LET keys == RangeKeys(media.Data, ord)
                strs == <<media.Type>> \o
                        [i \in 1..Len(keys) |-> FormatKV(keys[i], media.Data[keys[i]])]
            IN  "[CQ:" \o Join(strs, ",") \o "]"
    ELSE IF media.gotype = "Text" THEN
        EncodeCQText(media.Data["text"].s)
    ELSE
        LET f == StructFields(media.gotype)
            strs == <<FunctionName(media)>> \o
                    [i \in 1..Len(f) |-> FormatKV(f[i][1], media.Data[f[i][1]])]
        IN  "[CQ:" \o Join(strs, ",") \o "]"

\* Message.CQString, cqcode.go:300-306: str += FormatCQCode(media) over the
\* elements.  ords[i] is the range order of the i-th call.
RECURSIVE CQStringUpTo(_, _, _)
CQStringUpTo(m, ords, n) ==
    IF n = 0 THEN ""
    ELSE CQStringUpTo(m, ords, n - 1) \o FormatCQCode(m[n], ords[n])

\* CQString with a space put between the elements.
CQString_Spaced(m, ords) ==
    Join([i \in 1..Len(m) |-> FormatCQCode(m[i], ords[i])], " ")

CQString(m, ords) == CQStringUpTo(m, ords, Len(m))

(***************************************************************************)
(* decode, cqcode.go:50-64: mapstructure with TagName "cq" and              *)
(* WeaklyTypedInput, from a map into a media struct.                       *)
(***************************************************************************)
Upper == "ABCDEFGHIJKLMNOPQRSTUVWXYZ"
Lower == "abcdefghijklmnopqrstuvwxyz"

UpperToLower ==
    [c \in { CharAt(Upper, i) : i \in 1..Len(Upper) } |->
        CharAt(Lower, IndexFrom(Upper, c, 1))]

LowerChar(c) == IF c \in DOMAIN UpperToLower THEN UpperToLower[c] ELSE c

RECURSIVE ToLowerFrom(_, _)
ToLowerFrom(s, i) ==
    IF i > Len(s) THEN "" ELSE LowerChar(CharAt(s, i)) \o ToLowerFrom(s, i + 1)

\* strings.EqualFold on ASCII
EqualFold(a, b) ==
    \/ a = b
    \/ Len(a) = Len(b) /\ ToLowerFrom(a, 1) = ToLowerFrom(b, 1)

\* The weak conversion of a map value to a field of type ty: [ok, v].
\* An empty string for a number is 0 in the library versions where
\* emptyIsZero holds and a parse error in the older ones.
ConvertedInt(r) == [ok |-> r.ok, v |-> IntV(r.n)]

ConvertedBool(r) == [ok |-> r.ok, v |-> BoolV(r.b)]

WeakConvert(v, ty, emptyIsZero) ==
    CASE ty = "string" ->
            [ok |-> TRUE,
             v |-> StrV(CASE v.t = "string" -> v.s
                          [] v.t = "int" -> Itoa(v.i)
                          [] v.t = "bool" -> IF v.b THEN "1" ELSE "0")]
      [] ty = "int" ->
            (CASE v.t = "int" -> [ok |-> TRUE, v |-> v]
               [] v.t = "bool" -> [ok |-> TRUE, v |-> IntV(IF v.b THEN 1 ELSE 0)]
               [] v.t = "string" ->
                     ConvertedInt(ParseInt(IF v.s = "" /\ emptyIsZero THEN "0" ELSE v.s)))
      [] ty = "bool" ->
            (CASE v.t = "bool" -> [ok |-> TRUE, v |-> v]
               [] v.t = "int" -> [ok |-> TRUE, v |-> BoolV(v.i # 0)]
               [] v.t = "string" ->
                     IF v.s = "" THEN [ok |-> TRUE, v |-> BoolV(FALSE)]
                     ELSE ConvertedBool(ParseBool(v.s)))

\* The map key a field tagged tag is read from: the tag itself, else the
\* first key met by a range over the map that equals it ignoring case, else
\* "" (none).  ord holds the keys that equal some tag ignoring case, in the
\* order the range meets them.
FirstKey(keys) == IF Len(keys) > 0 THEN keys[1] ELSE ""

KeyFor(data, tag, ord) ==
    IF tag \in DOMAIN data THEN tag
    ELSE FirstKey(SelectSeq(ord, LAMBDA k : k \in DOMAIN data /\ EqualFold(k, tag)))

FieldHasKey(data, tag) ==
    tag \in DOMAIN data \/ \E k \in DOMAIN data : EqualFold(k, tag)

\* decode(data, media): every field whose key is in the map and whose value
\* converts is set, the other fields keep their values; err tells whether
\* some value did not convert.
\* One field: [ok, v], v the converted value, or the field's own value when
\* the map has no key for it or the value does not convert.
FieldOrOld(c, old) == IF c.ok THEN c ELSE [ok |-> FALSE, v |-> old]

decodeField(data, media, tag, ord, emptyIsZero) ==
    IF ~FieldHasKey(data, tag) THEN [ok |-> TRUE, v |-> media.Data[tag]]
    ELSE FieldOrOld(WeakConvert(data[KeyFor(data, tag, ord)],
                                TypeOfTag(media.gotype, tag), emptyIsZero),
                    media.Data[tag])

decoded(media, fields) ==
    [media |-> [media EXCEPT !.Data = [tag \in DOMAIN fields |-> fields[tag].v]],
     err |-> \E tag \in DOMAIN fields : ~fields[tag].ok]

decode(data, media, ord, emptyIsZero) ==
    decoded(media, [tag \in Tags(media.gotype) |->
                       decodeField(data, media, tag, ord, emptyIsZero)])

(***************************************************************************)
(* MessageSegment.ParseMedia, cqcode.go:329-344.  [media, err]; err is ""   *)
(* for nil.                                                                *)
(***************************************************************************)
ErrWrongMediaType == "wrong media type"
ErrInvalidCQCode == "invalid cqcode"
ErrDecode == "cannot parse"     \* the text of mapstructure's error

\* ParseMedia that leaves a target of another kind untouched.
ParseMedia_AllOrNothing(seg, media, ord, emptyIsZero) ==
    IF media.gotype = "MessageSegment" THEN [media |-> seg, err |-> ""]
    ELSE IF seg.Type # FunctionName(media)
         THEN [media |-> media, err |-> ErrWrongMediaType]
         ELSE LET d == decode(seg.Data, media, ord, emptyIsZero)
              IN  [media |-> d.media, err |-> IF d.err THEN ErrDecode ELSE ""]

\* Lines 335-343 on the result d of decode.
WrapErr(seg, media, d) ==
    [media |-> d.media,
     err |-> IF seg.Type # FunctionName(media)
             THEN (IF d.err THEN ErrWrongMediaType \o ": " \o ErrDecode
                   ELSE ErrWrongMediaType)
             ELSE (IF d.err THEN ErrDecode ELSE "")]

ParseMedia(seg, media, ord, emptyIsZero) ==
    IF media.gotype = "MessageSegment" THEN [media |-> seg, err |-> ""]
    ELSE WrapErr(seg, media, decode(seg.Data, media, ord, emptyIsZero))

(***************************************************************************)
(* ParseCQCode, cqcode.go:347-381                                          *)
(***************************************************************************)
\* The loop of lines 372-378 over strs[from..]: ms.Data[key] = value.
\* The loop taking the value up to the next "=" only.
RECURSIVE ParseFields_FirstValue(_, _, _)
ParseFields_FirstValue(strs, from, data) ==
    IF from > Len(strs) THEN data
    ELSE LET kvstrs == Split(strs[from], "=")
         IN  ParseFields_FirstValue(strs, from + 1,
                 MapPut(data, kvstrs[1],
                        StrV(DecodeCQCodeText(IF Len(kvstrs) > 1 THEN kvstrs[2] ELSE ""))))

RECURSIVE ParseFields(_, _, _)
ParseFields(strs, from, data) ==
    IF from > Len(strs) THEN data
    ELSE LET kvstrs == Split(strs[from], "=")
         IN  ParseFields(strs, from + 1,
                 MapPut(data, kvstrs[1], StrV(DecodeCQCodeText(Join(Tail(kvstrs), "=")))))

\* The marker read into a segment, lines 366-378.
ParseSegment(str) ==
    LET body == SubSeq(str, 5, Len(str) - 1)
        strs == Split(body, ",")
    IN  MessageSegment(strs[1], ParseFields(strs, 2, EmptyData))

IsCQCode(str) ==
    ~(Len(str) <= 5 \/ SubSeq(str, 1, 4) # "[CQ:" \/ CharAt(str, Len(str)) # "]")

ParseCQCode(str, media, ord, emptyIsZero) ==
    IF ~IsCQCode(str) THEN
        CASE media.gotype = "Text" ->
                [media |-> [media EXCEPT !.Data = MapPut(media.Data, "text", StrV(DecodeCQText(str)))],
                 err |-> ""]
          [] media.gotype = "MessageSegment" ->
                [media |-> MessageSegment("text", MapPut(EmptyData, "text", StrV(DecodeCQText(str)))),
                 err |-> ""]
          [] OTHER -> [media |-> media, err |-> ErrInvalidCQCode]
    ELSE ParseMedia(ParseSegment(str), media, ord, emptyIsZero)

\* NewMessageSegmentFromCQCode, cqcode.go:43-48
NewMessageSegmentFromCQCode(str) ==
    ParseCQCode(str, MessageSegment("", EmptyData), <<>>, FALSE)

(***************************************************************************)
(* ParseMessageSegmentsFromString, cqcode.go:120-153                       *)
(***************************************************************************)
\* regexp `\[CQ:[\s\S]*?\]` FindAllStringSubmatchIndex(str, -1): the matches
\* from left to right without overlap, each from a "[CQ:" to the first "]"
\* after it, as Go index pairs <<start, end>> (str[start:end] is the match).
\* from is the 1-based place the search goes on at.
RECURSIVE FindAllFrom(_, _)
FindAllFrom(str, from) ==
    LET p == IndexFrom(str, "[CQ:", from)
        q == IF p = 0 THEN 0 ELSE IndexFrom(str, "]", p + 4)
    IN  IF p = 0 \/ q = 0 THEN << >>
        ELSE << <<p - 1, q>> >> \o FindAllFrom(str, q + 1)

FindAllCQ(str) == FindAllFrom(str, 1)

\* str[lo:hi]
Slice(str, lo, hi) == SubSeq(str, lo + 1, hi)

TextSegment(text) == MessageSegment("text", MapPut(EmptyData, "text", StrV(text)))

\* Lines 136-140: the segment is appended unless the parse failed.
Appended(r) == IF r.err # "" THEN << >> ELSE <<r.media>>

\* The loop of lines 124-141 from the n-th match on, with the cursor i.
RECURSIVE ScanMatches(_, _, _, _)
ScanMatches(str, res, n, i) ==
    IF n > Len(res) THEN
        IF Len(str) > i THEN <<TextSegment(DecodeCQCodeText(Slice(str, i, Len(str))))>>
        ELSE << >>
    ELSE LET cqc == res[n]
             before == IF cqc[1] > i
                       THEN <<TextSegment(DecodeCQCodeText(Slice(str, i, cqc[1])))>>
                       ELSE << >>
         IN  before \o Appended(NewMessageSegmentFromCQCode(Slice(str, cqc[1], cqc[2])))
                    \o ScanMatches(str, res, n + 1, cqc[2])

\* The scan without the text after the last marker.
ParseMessageSegmentsFromString_NoTail(str) ==
    LET res == FindAllCQ(str)
        segs == ScanMatches(str, res, 1, 0)
    IN  IF Len(res) > 0 /\ Len(str) > res[Len(res)][2]
        THEN SubSeq(segs, 1, Len(segs) - 1)
        ELSE segs

ParseMessageSegmentsFromString(str) == ScanMatches(str, FindAllCQ(str), 1, 0)

(***************************************************************************)
(* ParseMessageFromMessageSegments, cqcode.go:164-242                      *)
(***************************************************************************)
\* The Go type the switch selects for a segment type; "MessageSegment" is
\* the default case, which keeps the segment.
VariantOf(type) ==
    CASE type = "text" -> "Text"
      [] type = "at" -> "At"
      [] type = "face" -> "Face"
      [] type = "emoji" -> "Emoji"
      [] type = "bface" -> "Bface"
      [] type = "sface" -> "Sface"
      [] type = "image" -> "Image"
      [] type = "record" -> "Record"
      [] type = "rps" -> "Rps"
      [] type = "dice" -> "Dice"
      [] type = "shake" -> "Shake"
      [] type = "music" -> "Music"
      [] type = "share" -> "Share"
      [] type = "location" -> "Location"
      [] type = "show" -> "Show"
      [] type = "sign" -> "Sign"
      [] type = "rich" -> "Rich"
      [] OTHER -> "MessageSegment"

\* One iteration of the loop: the element appended for seg.
MediaOfSegment(seg, ord, emptyIsZero) ==
    LET gotype == VariantOf(seg.Type)
    IN  IF gotype = "MessageSegment" THEN seg
        ELSE ParseMedia(seg, ZeroStruct(gotype), ord, emptyIsZero).media

ParseMessageFromMessageSegments(segs, ord, emptyIsZero) ==
    [i \in 1..Len(segs) |-> MediaOfSegment(segs[i], ord, emptyIsZero)]

\* ParseMessageFromString, cqcode.go:158-161
ParseMessageFromString(str, ord, emptyIsZero) ==
    ParseMessageFromMessageSegments(ParseMessageSegmentsFromString(str), ord, emptyIsZero)

(***************************************************************************)
(* Network resources, helpers.go:18-36 and 104-124.  The argument is the    *)
(* string form of the URL.                                                 *)
(***************************************************************************)
NewWeb(gotype, u) ==
    [gotype |-> gotype, Type |-> "",
     Data |-> MapPut(MapPut(EmptyData, InnerOf(gotype),
                            [ZeroStruct(InnerOf(gotype)) EXCEPT !.Data["file"] = StrV(u)]),
                     "NetResource", NetResource(CacheEnabled))]

NewImageWeb(u) == NewWeb("NetImage", u)

NewRecordWeb(u) == NewWeb("NetRecord", u)

SetCache(r, cache) == [r EXCEPT !.Data["NetResource"] = NetResource(cache)]

EnableCache(r) == SetCache(r, CacheEnabled)

DisableCache(r) == SetCache(r, CacheDisabled)

(***************************************************************************)
(* Faces, cqcode.go:655-988.  The tables are the two maps of the source    *)
(* restricted to the entries below; the names the source writes in Chinese *)
(* are written in pinyin.                                                  *)
(***************************************************************************)
ErrUnknownFace == "Unknown face"

stringFace ==
    [ n \in {"weixiao", "piezui", "jingya", "NO", "OK", "doge", "xiaoyanger", "wobukan"} |->
        CASE n = "weixiao" -> 14 [] n = "piezui" -> 1 [] n = "jingya" -> 0
          [] n = "NO" -> 123 [] n = "OK" -> 124 [] n = "doge" -> 179
          [] n = "xiaoyanger" -> 208 [] n = "wobukan" -> 211 ]

faceString ==
    [ i \in {14, 1, 0, 123, 124, 179, 208, 211} |->
        CASE i = 14 -> "weixiao" [] i = 1 -> "piezui" [] i = 0 -> "jingya"
          [] i = 123 -> "NO" [] i = 124 -> "OK" [] i = 179 -> "doge"
          [] i = 208 -> "xiaoyanger" [] i = 211 -> "wobukan" ]

\* strings.Trim(str, cutset) for a cutset of one character.
RECURSIVE TrimChar(_, _)
TrimChar(str, c) ==
    IF Len(str) > 0 /\ CharAt(str, 1) = c THEN TrimChar(SubSeq(str, 2, Len(str)), c)
    ELSE IF Len(str) > 0 /\ CharAt(str, Len(str)) = c
         THEN TrimChar(SubSeq(str, 1, Len(str) - 1), c)
         ELSE str

Face(id) == [gotype |-> "Face", Type |-> "", Data |-> MapPut(EmptyData, "id", IntV(id))]

NewFaceFromName_NoTrim(str) ==
    IF str \in DOMAIN stringFace THEN [face |-> Face(stringFace[str]), err |-> ""]
    ELSE [face |-> Face(0), err |-> ErrUnknownFace]

NewFaceFromName(str) ==
    IF TrimChar(str, "/") \in DOMAIN stringFace
    THEN [face |-> Face(stringFace[TrimChar(str, "/")]), err |-> ""]
    ELSE [face |-> Face(0), err |-> ErrUnknownFace]

\* (f *Face) Name()
Name(f) ==
    IF f.Data["id"].i \in DOMAIN faceString
    THEN [name |-> faceString[f.Data["id"].i], err |-> ""]
    ELSE [name |-> Itoa(f.Data["id"].i), err |-> ErrUnknownFace]

(***************************************************************************)
(* ParseMessage and the array path, cqcode.go:88-115.  A payload is        *)
(* [shape, str, segs]: a string, or an array of {type, data} objects.       *)
(***************************************************************************)
ErrResultNotPointer == "result must be a pointer"

\* mapstructure.NewDecoder (line 58) takes a Result that is a pointer only.
NewDecoder(resultIsPointer) == IF resultIsPointer THEN "" ELSE ErrResultNotPointer

\* decode(msg, segs) of line 102: segs is the slice itself, not a pointer
\* to it.  [segs, err]: the slice after the call and the error.
decodeSlice(input, segs, resultIsPointer) ==
    IF NewDecoder(resultIsPointer) # "" THEN [segs |-> segs, err |-> NewDecoder(resultIsPointer)]
    ELSE [segs |-> input, err |-> ""]

ParseMessageSegmentsFromArray(msg) == decodeSlice(msg, << >>, FALSE)

FromSegments(r, ord, emptyIsZero) ==
    IF r.err # "" THEN [msg |-> << >>, err |-> r.err]
    ELSE [msg |-> ParseMessageFromMessageSegments(r.segs, ord, emptyIsZero), err |-> ""]

ParseMessageFromArray(msg, ord, emptyIsZero) ==
    FromSegments(ParseMessageSegmentsFromArray(msg), ord, emptyIsZero)

ParseMessage(payload, ord, emptyIsZero) ==
    IF payload.shape = "string"
    THEN [msg |-> ParseMessageFromString(payload.str, ord, emptyIsZero), err |-> ""]
    ELSE ParseMessageFromArray(payload.segs, ord, emptyIsZero)

(***************************************************************************)
(* IsCommand, cqcode.go:260-268                                            *)
(***************************************************************************)
\* IsCommand requiring the "/" whatever StrictCommand is.
IsCommand_AlwaysStrict(str, strict) ==
    IF Len(str) = 0 THEN FALSE
    ELSE IF SubSeq(str, 1, 1) # "/" THEN FALSE
    ELSE TRUE

IsCommand(str, strict) ==
    IF Len(str) = 0 THEN FALSE
    ELSE IF strict /\ SubSeq(str, 1, 1) # "/" THEN FALSE
    ELSE TRUE

(***************************************************************************)
(* Command, cqcode.go:272-296                                              *)
(***************************************************************************)
\* The sentinels of lines 273-275, written for \\, \" and \'.
Sentinel5c == "\\0x5c"
Sentinel22 == "\\0x22"
Sentinel27 == "\\0x27"

\* Lines 273-275.
Substituted(str) ==
    Replace(Replace(Replace(str, "\\\\", Sentinel5c), "\\\"", Sentinel22), "\\'", Sentinel27)

\* The regexp classes \s and \S.
IsSpace(c) == c \in {" ", "\t", "\n", "\r", "\f"}

\* The last index of the run of non-space characters that starts at i,
\* i - 1 when there is none.
RECURSIVE NonSpaceEnd(_, _)
NonSpaceEnd(str, i) ==
    IF i > Len(str) \/ IsSpace(CharAt(str, i)) THEN i - 1
    ELSE NonSpaceEnd(str, i + 1)

\* The first index >= i that holds a non-space character, 0 when none.
RECURSIVE SkipSpace(_, _)
SkipSpace(str, i) ==
    IF i > Len(str) THEN 0
    ELSE IF IsSpace(CharAt(str, i)) THEN SkipSpace(str, i + 1)
    ELSE i

\* '[\s\S]*?' and "[\s\S]*?" at p: the index of the closing quote, 0 when
\* the alternative does not match at p.
QuotedEnd(str, p, q) ==
    IF CharAt(str, p) = q THEN IndexFrom(str, q, p + 1) ELSE 0

\* \S*\[CQ:[\s\S]*?\]\S* at p: the greedy \S* gives the last "[CQ:" of the
\* non-space run from p that has a "]" after it; the match goes on to the
\* first such "]" and the non-space characters after it.  The index of the
\* last character, 0 when the alternative does not match at p.
MarkerStarts(str, p) ==
    { j \in p..NonSpaceEnd(str, p) :
        HasPrefixAt(str, "[CQ:", j) /\ IndexFrom(str, "]", j + 4) # 0 }

MaxOf(S) == CHOOSE j \in S : \A k \in S : k <= j

MarkerRunEnd(str, p) ==
    IF MarkerStarts(str, p) = {} THEN 0
    ELSE NonSpaceEnd(str, IndexFrom(str, "]", MaxOf(MarkerStarts(str, p)) + 4) + 1)

\* The pattern without its marker alternative.
TokenEnd_NoMarker(str, p) ==
    IF QuotedEnd(str, p, "'") # 0 THEN QuotedEnd(str, p, "'")
    ELSE IF QuotedEnd(str, p, "\"") # 0 THEN QuotedEnd(str, p, "\"")
    ELSE NonSpaceEnd(str, p)

\* The alternatives in the order of the pattern, at a non-space p.
TokenEnd(str, p) ==
    IF QuotedEnd(str, p, "'") # 0 THEN QuotedEnd(str, p, "'")
    ELSE IF QuotedEnd(str, p, "\"") # 0 THEN QuotedEnd(str, p, "\"")
    ELSE IF MarkerRunEnd(str, p) # 0 THEN MarkerRunEnd(str, p)
    ELSE NonSpaceEnd(str, p)

\* FindAllString(str, -1) of line 276, from index i on.
RECURSIVE TokensFrom(_, _)
TokenAndRest(str, p, e) == <<SubSeq(str, p, e)>> \o TokensFrom(str, e + 1)

TokensFrom(str, i) ==
    IF SkipSpace(str, i) = 0 THEN << >>
    ELSE TokenAndRest(str, SkipSpace(str, i), TokenEnd(str, SkipSpace(str, i)))

Tokens(str) == TokensFrom(str, 1)

\* strings.Trim(arg, `'"`): every leading and trailing quote character goes.
IsQuote(c) == c \in {"'", "\""}

RECURSIVE TrimLeft(_)
TrimLeft(arg) ==
    IF Len(arg) > 0 /\ IsQuote(CharAt(arg, 1)) THEN TrimLeft(SubSeq(arg, 2, Len(arg)))
    ELSE arg

RECURSIVE TrimRight(_)
TrimRight(arg) ==
    IF Len(arg) > 0 /\ IsQuote(CharAt(arg, Len(arg)))
    THEN TrimRight(SubSeq(arg, 1, Len(arg) - 1))
    ELSE arg

Trim(arg) == TrimRight(TrimLeft(arg))

\* Lines 289-292: one argument.
Restored(arg) ==
    Replace(Replace(Replace(arg, Sentinel27, "'"), Sentinel22, "\""), Sentinel5c, "\\")

Argument(arg) == Restored(Trim(arg))

\* The split that strips the first character without looking at it.
CommandOf_NoPrefixCheck(strs, strict) ==
    IF Len(strs) = 0 \/ Len(strs[1]) = 0 THEN [cmd |-> "", args |-> << >>]
    ELSE [cmd |-> IF strict THEN SubSeq(strs[1], 2, Len(strs[1])) ELSE strs[1],
          args |-> [i \in 1..(Len(strs) - 1) |-> Argument(strs[i + 1])]]

\* Lines 277-295 on the tokens.  [cmd, args]; the bare return leaves cmd ""
\* and args nil.
CommandOf(strs, strict) ==
    IF Len(strs) = 0 \/ Len(strs[1]) = 0 THEN [cmd |-> "", args |-> << >>]
    ELSE IF strict /\ SubSeq(strs[1], 1, 1) # "/" THEN [cmd |-> "", args |-> << >>]
    ELSE [cmd |-> IF strict THEN SubSeq(strs[1], 2, Len(strs[1])) ELSE strs[1],
          args |-> [i \in 1..(Len(strs) - 1) |-> Argument(strs[i + 1])]]

Command(str, strict) == CommandOf(Tokens(Substituted(str)), strict)

(***************************************************************************)
(* Inputs.  Plain strings are built from fragments that hold the special   *)
(* characters, pieces of escapes and whole escapes.                        *)
(***************************************************************************)
Frags ==
    { "&", "[", "]", ",", "amp;", "#91;", "#44;", "&#93;", "&amp;", "/", "a",
      "[,]&", "&#91;he&#44;ym", "[CQ:at,qq=all]" }

RECURSIVE Concats(_, _)
Concats(F, n) ==
    IF n = 0 THEN {""}
    ELSE LET shorter == Concats(F, n - 1)
         IN  shorter \cup { s \o f : s \in shorter, f \in F }

PlainStrings == Concats(Frags, MaxFrags)

\* Payload strings: text runs, markers of known and unknown kinds, an empty
\* marker and unbalanced brackets, in every order.
PayloadFrags ==
    { "A", "B", "&#91;he&#44;ym", "[CQ:shake]", "[CQ:face,id=14]", "[CQ:foo,a=1,b=2]",
      "[CQ:]", "[CQ:", "]" }

PayloadStrings == Concats(PayloadFrags, MaxParts)

\* Single markers "[CQ:kind,pair,...]" listing up to MaxPairs pairs: all of
\* the variant's fields or some of them, in and out of the declared order,
\* repeated keys, values in and out of the encoder's form.
PairsOf(kind) ==
    CASE kind = "face" -> { "id=14", "id=014", "id=x", "id=", "ID=7", "Id=8" }
      [] kind = "image" -> { "file=1.jpg", "url=", "url=u&amp;v", "file=a&b" }
      [] kind = "record" -> { "file=a", "magic=false", "magic=1", "url=" }
      [] kind = "at" -> { "qq=123&#44;456", "qq=a=b" }
      [] kind = "text" -> { "text=hi" }
      [] kind = "shake" -> { }
      [] kind = "foo" -> { "a=1", "b=2", "a=3", "c" }
      [] kind = "bar" -> { "x=&#91;1&#93;" }

MarkerKinds == { "face", "image", "record", "at", "text", "shake", "foo", "bar" }

RECURSIVE PairLists(_, _)
PairLists(P, n) ==
    IF n = 0 THEN {""}
    ELSE LET shorter == PairLists(P, n - 1)
         IN  shorter \cup { l \o "," \o p : l \in shorter, p \in P }

MarkerStrings ==
    UNION { { "[CQ:" \o kind \o l \o "]" : l \in PairLists(PairsOf(kind), MaxPairs) }
            : kind \in MarkerKinds }

\* Elements: every struct type with up to MaxPopulated fields holding a
\* non-zero value.
StrVals == { "[,]&", "a=b", "&#44;x" }
IntVals == { 14, 0 - 1, 170 }

NonZeroVals(ty) ==
    CASE ty = "string" -> { StrV(x) : x \in StrVals }
      [] ty = "int" -> { IntV(x) : x \in IntVals }
      [] ty = "bool" -> { BoolV(TRUE) }

\* The field maps of a struct type from its i-th field on, given the fields
\* d set so far and the number of fields that may still be non-zero.
RECURSIVE Fill(_, _, _, _)
Fill(gotype, i, left, d) ==
    LET f == StructFields(gotype)
    IN  IF i > Len(f) THEN {d}
        ELSE Fill(gotype, i + 1, left, MapPut(d, f[i][1], ZeroV(f[i][2])))
             \cup (IF left = 0 THEN {}
                   ELSE UNION { Fill(gotype, i + 1, left - 1, MapPut(d, f[i][1], v))
                                : v \in NonZeroVals(f[i][2]) })

Populated(gotype) ==
    { [gotype |-> gotype, Type |-> "", Data |-> d] :
        d \in Fill(gotype, 1, MaxPopulated, EmptyData) }

Text(text) == [gotype |-> "Text", Type |-> "", Data |-> MapPut(EmptyData, "text", StrV(text))]

StructElements ==
    UNION { Populated(gotype) : gotype \in StructTypes \ {"Text"} }

TextElements == { Text(x) : x \in PlainStrings }

\* Messages: up to MaxMsgLen elements, typed ones and generic segments.
MsgElements ==
    { Text("[,]&"), Text("A"), ZeroStruct("Shake"),
      [ZeroStruct("Record") EXCEPT !.Data["file"] = StrV("/data/audio/[,]&")],
      [ZeroStruct("Face") EXCEPT !.Data["id"] = IntV(14)],
      MessageSegment("foo", MapPut(MapPut(EmptyData, "a", StrV("1")), "b", IntV(2))),
      TextSegment("x&y") }

RECURSIVE SeqsUpTo(_, _)
SeqsUpTo(S, n) ==
    IF n = 0 THEN { << >> }
    ELSE LET shorter == SeqsUpTo(S, n - 1)
         IN  shorter \cup { Append(m, e) : m \in shorter, e \in S }

Messages == SeqsUpTo(MsgElements, MaxMsgLen)

\* Targets a marker is parsed into: fresh and already populated ones.
Targets ==
    { ZeroStruct(t) : t \in { "Text", "Face", "Emoji", "Image", "Record", "At", "Shake" } }
    \cup { [ZeroStruct("Face") EXCEPT !.Data["id"] = IntV(3)],
           MessageSegment("", EmptyData),
           MessageSegment("face", MapPut(EmptyData, "id", StrV("9"))) }

\* Command strings: a head (what precedes the first separator) and up to
\* MaxWords words, each after white space.  The words hold quoted runs,
\* escapes, markers alone, glued to text and with white space inside, and
\* quote characters without a partner.
CmdHeads == { "", "\n ", "/", "/cmd", "cmd", " /cmd", "/a\\\\b", "/[CQ:face,id=170]" }

CmdSeps == { " ", "\n" }

QuotedWords == { "'a b'", "\"c d\"", "'a \\'r \ng 2'" }

MarkerWords == { "[CQ:face,id=5]", "x[CQ:m,c=a\nb]y" }

PlainWords == { "arg1" }

LooseQuoteWords == { "'abc", "it's", "\"a'\"", "'s[CQ:m,c=a 'b]" }

CmdWords == QuotedWords \cup MarkerWords \cup PlainWords \cup LooseQuoteWords

\* [str, words]: the text after the head and the words in it.
RECURSIVE CmdTailsUpTo(_)
CmdTailsUpTo(n) ==
    IF n = 0 THEN { [str |-> "", words |-> << >>] }
    ELSE CmdTailsUpTo(n - 1) \cup
         { [str |-> t.str \o sw[1] \o sw[2], words |-> Append(t.words, sw[2])] :
             t \in { u \in CmdTailsUpTo(n - 1) : Len(u.words) = n - 1 },
             sw \in ({" "} \X CmdWords) \cup (CmdSeps \X PlainWords) }

CmdTails ==
    CmdTailsUpTo(MaxWords) \cup
    { [str |-> " 'a b' \"c d\" [CQ:face,id=5]",
       words |-> <<"'a b'", "\"c d\"", "[CQ:face,id=5]">>] }

\* The webhook, bot.go:608-642.  The hex HMAC-SHA1 of a body under a secret
\* is an abstract string that determines both; collisions are left out.
HexHMAC(secret, body) == "hmac<" \o secret \o "|" \o body \o ">"

Secrets == {"", "k"}

Bodies == {"{\"post_type\":\"message\"}"}

\* X-Signature headers: none, too short, the signature under the secret,
\* under another key, of another body, and behind another prefix.
Headers(body) ==
    { "", "sha1", "sha1=" \o HexHMAC("k", body), "sha1=" \o HexHMAC("j", body),
      "sha1=" \o HexHMAC("k", "{}"), "md5==" \o HexHMAC("k", body) }

ChatIDs == {10000000}

ChatTypes == {"group", "private"}

WebURLs == { "https://img.rikako.moe/i/D1D.jpg", "http://a/b.amr" }

\* Face names: a core that neither starts nor ends with "/", between up to
\* MaxSlashes "/" on each side.
RECURSIVE Slashes(_)
Slashes(n) == IF n = 0 THEN "" ELSE "/" \o Slashes(n - 1)

FaceCores == (DOMAIN stringFace) \cup {"", "ok", "no", "NO/OK", "weixiao2", "x"}

FaceNameInputs ==
    { [str |-> Slashes(a) \o c \o Slashes(b), core |-> c] :
        a \in 0..MaxSlashes, b \in 0..MaxSlashes, c \in FaceCores }

\* Face ids: the ids of the tables above and ids the source's table lacks.
FaceIDs == (DOMAIN faceString) \cup {0 - 1, 17, 170, 209, 213}

\* The payloads of ParseMessage: the marker strings and arrays of up to
\* MaxMsgLen segments.
ArraySegments ==
    { TextSegment("A"),
      MessageSegment("face", MapPut(EmptyData, "id", StrV("14"))),
      MessageSegment("face", MapPut(EmptyData, "id", IntV(14))),
      MessageSegment("image", MapPut(EmptyData, "file", StrV("1.jpg"))),
      MessageSegment("shake", EmptyData),
      MessageSegment("foo", MapPut(MapPut(EmptyData, "a", StrV("1")), "b", IntV(2))) }

Payloads ==
    { [shape |-> "string", str |-> s, segs |-> << >>] : s \in MarkerStrings }
    \cup { [shape |-> "array", str |-> "", segs |-> a] :
              a \in SeqsUpTo(ArraySegments, MaxMsgLen) }

\* The orders a range over a map with the keys K may take.  All of them for
\* up to three keys; for a larger map the rotations of one order and of its
\* reverse, so that every key comes first and every pair comes both ways.
RECURSIVE SeqOfSet(_)
SeqOfSet(K) ==
    IF K = {} THEN << >>
    ELSE LET k == CHOOSE x \in K : TRUE IN <<k>> \o SeqOfSet(K \ {k})

Reverse(q) == [i \in 1..Len(q) |-> q[Len(q) + 1 - i]]

Rotate(q, n) == SubSeq(q, n + 1, Len(q)) \o SubSeq(q, 1, n)

Orders(K) ==
    LET q == SeqOfSet(K)
    IN  IF K = {} THEN { << >> }
        ELSE { Rotate(q, n) : n \in 0..(Len(q) - 1) }
             \cup { Rotate(Reverse(q), n) : n \in 0..(Len(q) - 1) }

RangedKeys(media) == IF media.gotype = "MessageSegment" THEN DOMAIN media.Data ELSE {}

\* One order per element of a message.
RECURSIVE OrdersOfMessage(_)
OrdersOfMessage(m) ==
    IF Len(m) = 0 THEN { << >> }
    ELSE { <<o>> \o rest : o \in Orders(RangedKeys(m[1])), rest \in OrdersOfMessage(Tail(m)) }

\* The keys of a map that are no tag of the struct type and equal one of its
\* tags ignoring case: the ones the case-insensitive search can stop at.
FoldKeys(data, gotype) ==
    { k \in DOMAIN data :
        k \notin Tags(gotype) /\ \E tag \in Tags(gotype) : EqualFold(k, tag) }

FoldKeysOfSegments(segs) ==
    UNION { FoldKeys(segs[i].Data, VariantOf(segs[i].Type)) : i \in 1..Len(segs) }

FoldKeysOfString(s) == FoldKeysOfSegments(ParseMessageSegmentsFromString(s))

(***************************************************************************)
(* The calls                                                               *)
(***************************************************************************)
\* Command strings that hold the text of a sentinel, next to ones that hold
\* an escape: a head, then up to MaxWords words, each after one space.
SentinelHeads == { "/cmd", "/a\\\\b", "/c\\0x22d" }

SentinelWords == { "x\\0x27y", "\\0x5c", "a\\\\b", "arg1" }

RECURSIVE SentinelTails(_)
SentinelTails(n) ==
    IF n = 0 THEN { [str |-> "", words |-> << >>] }
    ELSE SentinelTails(n - 1) \cup
         { [str |-> t.str \o " " \o w, words |-> Append(t.words, w)] :
             t \in { u \in SentinelTails(n - 1) : Len(u.words) = n - 1 },
             w \in SentinelWords }

\* Updates, the events handlers subscribe to, and the handlers.
EvUpdates ==
    { [PostType |-> "message", DetailedType |-> "private", SubType |-> "friend"],
      [PostType |-> "message", DetailedType |-> "group", SubType |-> ""],
      [PostType |-> "message", DetailedType |-> "", SubType |-> "x"] }

EvEvents == { "message", "message.private", "message.private.friend" }

EvHandlers == { "h1", "h2" }

\* NewMessageSegment, cqcode.go:33-40: decode of a struct into the Data map
\* puts every field under its cq tag, with the field's own value.
NewMessageSegment(media) == MessageSegment(FunctionName(media), media.Data)

\* The webhook, bot.go:608-642.
\* The handler that delivers whatever it receives.
Handle_NoCheck(secret, header, body) == "send"

\* Lines 615-624 of the handler: "send" when it goes on to the channel
\* send, "return" when the signature differs, "panic" when the header is
\* shorter than "sha1=" and the slice expression is out of range.
Handle(secret, header, body) ==
    IF secret = "" THEN "send"
    ELSE IF Len(header) < Len("sha1=") THEN "panic"
    ELSE IF SubSeq(header, Len("sha1=") + 1, Len(header)) # HexHMAC(secret, body) THEN "return"
    ELSE "send"

\* log: the requests in arrival order, each with the outcome of its handler
\* and the updates already on the channel when it arrived; pending: the
\* handlers that have not yet executed ch <- update; ch: the channel; got:
\* what the application received from it.
NoHook ==
    [listening |-> FALSE, Secret |-> "", log |-> << >>, pending |-> {},
     ch |-> << >>, got |-> << >>]

\* The WebSocket API client before any request.
(***************************************************************************)
(* The WebSocket API client, bot.go.  Requesters are the goroutines that   *)
(* call makeWSRequest; the reader is the goroutine started at line 126.    *)
(* The channel made for a request is named by the request's echo.  The     *)
(* echo of a response is a JSON value: absent, a string, or a number, kept *)
(* as twice its value so that halves can be told from whole numbers.       *)
(***************************************************************************)
Requesters == 1..MaxRequesters

FreeMux == <<"free", 0>>
ReaderHolds == <<"reader", 0>>
Holder(r) == <<"requester", r>>

NoResponse == [kind |-> "none", twice |-> 0]

\* The responses the server may send: echo 0, 1, 1.5, 2, "1", and none.
Responses ==
    {[kind |-> "number", twice |-> t] : t \in {0, 2, 3, 4}}
    \cup {[kind |-> "string", twice |-> 2], [kind |-> "absent", twice |-> 0]}

\* echo, ok := resp.Echo.(float64), line 134
IsFloat64(resp) == resp.kind = "number"

\* e := int(echo), line 138: the fraction is dropped.
IntOf(resp) == resp.twice \div 2

\* The lookup that takes any pending request.
Route_Any(pending, resp) ==
    IF pending = {} THEN {} ELSE {CHOOSE e \in pending : \A f \in pending : e <= f}

\* Lines 134-140: the pending requests the response goes to, none or one.
Route(pending, resp) ==
    IF IsFloat64(resp) /\ IntOf(resp) \in pending THEN {IntOf(resp)} ELSE {}

\* A map access is in progress outside the mutex: the insert of line 233.
Inserting(w) == \E r \in Requesters : w.reqs[r].pc = "inserting"

\* Echo, WSPendingRequests, WSPendingMux: the fields of BotAPI; reqs: each
\* requester's position, echo, response and error; reader: the reader's
\* position, the response it holds, the channel its lookup gave, and
\* whether its last lookup found one; closed: the channels closed; carried: the responses
\* each channel carried; received: the responses read so far; closedTwice,
\* sentOnClosed: a channel was closed again, or sent on after its close;
\* unguarded: the map was accessed by a goroutine not holding the mutex;
\* overlap: two goroutines were in the map at once; crashed: the runtime
\* ended the process on such an overlap.
NoWS ==
    [Echo |-> 0, WSPendingRequests |-> {}, WSPendingMux |-> FreeMux,
     reqs |-> [r \in Requesters |->
                 [pc |-> "start", echo |-> 0, resp |-> NoResponse, err |-> ""]],
     reader |-> [pc |-> "receive", resp |-> NoResponse, ch |-> 0, found |-> FALSE],
     closed |-> {}, carried |-> << >>, received |-> 0,
     closedTwice |-> FALSE, sentOnClosed |-> FALSE,
     unguarded |-> FALSE, overlap |-> FALSE, crashed |-> FALSE]

\* close(ch)
Close(w, e) ==
    [w EXCEPT !.closed = @ \cup {e}, !.closedTwice = @ \/ e \in w.closed]

\* The timeout case that leaves the echo in the map.
TimeoutCase_NoDelete(w, r) ==
    [Close(w, w.reqs[r].echo) EXCEPT
        !.WSPendingMux = FreeMux,
        !.reqs[r].pc = "done", !.reqs[r].err = "request timeout"]

\* Lines 244-247, with the mutex held: delete, close, unlock, return.
TimeoutCase(w, r) ==
    [Close(w, w.reqs[r].echo) EXCEPT
        !.WSPendingRequests = @ \ {w.reqs[r].echo},
        !.WSPendingMux = FreeMux,
        !.reqs[r].pc = "done", !.reqs[r].err = "request timeout"]

\* A map access by goroutine `holder`: it is unguarded when the goroutine
\* does not hold the mutex, and overlaps when an insert is in progress.
Accessed(w, holder, busy) ==
    [w EXCEPT !.unguarded = @ \/ w.WSPendingMux # holder,
              !.overlap = @ \/ busy]

\* The outcomes of a map access: as written, or, when it overlaps another
\* one, the end of the process ("concurrent map writes").
Outcomes(w, busy) ==
    {w} \cup (IF busy THEN {[w EXCEPT !.crashed = TRUE]} ELSE {})

(***************************************************************************)
(* The event emitter, ev.go.  A handler is a name; subscribers maps an     *)
(* event to the handlers subscribed to it, in subscription order.          *)
(***************************************************************************)
\* Lines 19-43, the events one update is emitted under, with the most
\* general one first.
EventsOf_PostFirst(update) ==
    <<update.PostType>>
    \o (IF update.DetailedType # ""
        THEN <<update.PostType \o "." \o update.DetailedType>>
             \o (IF update.SubType # ""
                 THEN <<update.PostType \o "." \o update.DetailedType \o "." \o update.SubType>>
                 ELSE << >>)
        ELSE << >>)

\* Lines 19-43: the events one update is emitted under, in order.  The
\* detailed type is the notice, message or request type of the update, ""
\* for any other post type.
EventsOf(update) ==
    (IF update.DetailedType # ""
     THEN (IF update.SubType # ""
           THEN <<update.PostType \o "." \o update.DetailedType \o "." \o update.SubType>>
           ELSE << >>)
          \o <<update.PostType \o "." \o update.DetailedType>>
     ELSE << >>)
    \o <<update.PostType>>

\* Emit, lines 50-56: the calls it makes.
Emit(subscribers, event, update) ==
    IF event \in DOMAIN subscribers
    THEN [i \in 1..Len(subscribers[event]) |->
            [handler |-> subscribers[event][i], event |-> event, update |-> update]]
    ELSE << >>

RECURSIVE EmitAll(_, _, _)
EmitAll(subscribers, events, update) ==
    IF events = << >> THEN << >>
    ELSE Emit(subscribers, Head(events), update) \o EmitAll(subscribers, Tail(events), update)

\* On, lines 58-70.
On(subscribers, event, handler) ==
    MapPut(subscribers, event,
           Append(IF event \in DOMAIN subscribers THEN subscribers[event] ELSE << >>, handler))

\* The Off that empties the event.
Off_All(subscribers, event, handler) ==
    IF event \notin DOMAIN subscribers THEN subscribers
    ELSE MapPut(subscribers, event, << >>)

\* Off, lines 72-86: the loop keeps the handlers that differ from the one
\* given.
RECURSIVE Kept(_, _)
Kept(handlers, handler) ==
    IF handlers = << >> THEN << >>
    ELSE (IF Head(handlers) # handler THEN <<Head(handlers)>> ELSE << >>)
         \o Kept(Tail(handlers), handler)

Off(subscribers, event, handler) ==
    IF event \notin DOMAIN subscribers THEN subscribers
    ELSE MapPut(subscribers, event, Kept(subscribers[event], handler))

\* subscribers: the map; channel: the updates channel; pushed, taken: the
\* updates put on the channel and taken from it so far; unsubs: the
\* Unsubscribe closures On returned; op, event, handler, before: the last
\* call and the subscribers before it; update, calls: the update last
\* dispatched and the handler calls made for it.
NoUpdate == [PostType |-> "", DetailedType |-> "", SubType |-> ""]

NoEv ==
    [subscribers |-> << >>, channel |-> << >>, pushed |-> << >>, taken |-> << >>,
     unsubs |-> {}, ons |-> 0, op |-> "none", event |-> "", handler |-> "",
     before |-> << >>, update |-> NoUpdate, calls |-> << >>]

\* The chained sender, sender.go.  The builtin copy(dst, src) copies
\* min(len(dst), len(src)) elements.
Copy(dst, src) == [i \in 1..Len(dst) |-> IF i <= Len(src) THEN src[i] ELSE dst[i]]

\* clone, sender.go:21-32: the new cache is made with length 0 and then
\* filled by copy.
clone(cache) == Copy(<< >>, cache)

NilMedia == [gotype |-> "nil", Type |-> "", Data |-> EmptyData]

NoRet ==
    [op |-> "none", str |-> "", media |-> NilMedia, msg |-> << >>,
     out |-> "", out2 |-> "", outMedia |-> NilMedia, outMsg |-> << >>,
     err |-> "", b |-> FALSE, emptyIsZero |-> FALSE,
     head |-> "", words |-> << >>, cmd |-> "", args |-> << >>,
     shape |-> "",
     chat |-> [ChatID |-> 0, ChatType |-> ""], added |-> << >>,
     sentTo |-> [ChatID |-> 0, ChatType |-> ""]]

Idle == ret.op = "none"

Init ==
    /\ StrictCommand = FALSE
    /\ ret = NoRet
    /\ hook = NoHook
    /\ ws = NoWS
    /\ ev = NoEv

\* The caller takes the results; the next call may start.
Return ==
    /\ ~Idle
    /\ ret' = NoRet
    /\ UNCHANGED <<StrictCommand, hook, ws, ev>>

\* The application assigns the package variable (README.md:149).
SetStrictCommand ==
    /\ Idle
    /\ \E b \in BOOLEAN : StrictCommand' = b
    /\ UNCHANGED <<ret, hook, ws, ev>>

\* EncodeCQText(s), then DecodeCQText of the result
CallCQText ==
    /\ Idle
    /\ \E s \in PlainStrings :
        ret' = [NoRet EXCEPT !.op = "CQText", !.str = s,
                             !.out = EncodeCQText(s),
                             !.out2 = DecodeCQText(EncodeCQText(s))]
    /\ UNCHANGED <<StrictCommand, hook, ws, ev>>

\* EncodeCQCodeText(s), then DecodeCQCodeText of the result
CallCQCodeText ==
    /\ Idle
    /\ \E s \in PlainStrings :
        ret' = [NoRet EXCEPT !.op = "CQCodeText", !.str = s,
                             !.out = EncodeCQCodeText(s),
                             !.out2 = DecodeCQCodeText(EncodeCQCodeText(s))]
    /\ UNCHANGED <<StrictCommand, hook, ws, ev>>

\* IsCommand(s)
CallIsCommand ==
    /\ Idle
    /\ \E s \in PlainStrings :
        ret' = [NoRet EXCEPT !.op = "IsCommand", !.str = s,
                             !.b = IsCommand(s, StrictCommand)]
    /\ UNCHANGED <<StrictCommand, hook, ws, ev>>

\* IsCommand(s) and Command(s) of one command string
CallCommand ==
    /\ Idle
    /\ \E h \in CmdHeads : \E tail \in CmdTails :
       \E s \in {h \o tail.str} :
       \E r \in {Command(s, StrictCommand)} :
        ret' = [NoRet EXCEPT !.op = "Command", !.str = s, !.head = h,
                             !.words = tail.words,
                             !.b = IsCommand(s, StrictCommand),
                             !.cmd = r.cmd, !.args = r.args]
    /\ UNCHANGED <<StrictCommand, hook, ws, ev>>

\* Command(str) on the strings that hold sentinel text
CallCommandSentinels ==
    /\ Idle
    /\ \E h \in SentinelHeads : \E tail \in SentinelTails(MaxWords) :
       \E s \in {h \o tail.str} :
       \E r \in {Command(s, StrictCommand)} :
        ret' = [NoRet EXCEPT !.op = "CommandSentinels", !.str = s, !.head = h,
                             !.words = tail.words,
                             !.b = IsCommand(s, StrictCommand),
                             !.cmd = r.cmd, !.args = r.args]
    /\ UNCHANGED <<StrictCommand, hook, ws, ev>>

\* ParseMessage(payload)
CallParseMessage ==
    /\ Idle
    /\ \E payload \in Payloads : \E z \in BOOLEAN :
       \E ord \in Orders(IF payload.shape = "string" THEN FoldKeysOfString(payload.str)
                         ELSE FoldKeysOfSegments(payload.segs)) :
       \E r \in {ParseMessage(payload, ord, z)} :
        ret' = [NoRet EXCEPT !.op = "ParseMessage", !.shape = payload.shape,
                             !.str = payload.str, !.msg = payload.segs,
                             !.emptyIsZero = z,
                             !.outMsg = r.msg, !.err = r.err]
    /\ UNCHANGED <<StrictCommand, hook, ws, ev>>

\* NewImageWeb(u), NewRecordWeb(u): the element stays in ret.media for the
\* calls that follow; ret.words lists the cache calls made on it.
CallNewWeb ==
    /\ Idle
    /\ \E u \in WebURLs : \E r \in {NewImageWeb(u), NewRecordWeb(u)} :
        ret' = [NoRet EXCEPT !.op = "NewWeb", !.str = u, !.media = r]
    /\ UNCHANGED <<StrictCommand, hook, ws, ev>>

CallEnableCache ==
    /\ ret.media.gotype \in NetTypes
    /\ Len(ret.words) < MaxCalls
    /\ ret' = [ret EXCEPT !.op = "EnableCache", !.media = EnableCache(ret.media),
                          !.words = Append(ret.words, "EnableCache"), !.out = ""]
    /\ UNCHANGED <<StrictCommand, hook, ws, ev>>

CallDisableCache ==
    /\ ret.media.gotype \in NetTypes
    /\ Len(ret.words) < MaxCalls
    /\ ret' = [ret EXCEPT !.op = "DisableCache", !.media = DisableCache(ret.media),
                          !.words = Append(ret.words, "DisableCache"), !.out = ""]
    /\ UNCHANGED <<StrictCommand, hook, ws, ev>>

\* FormatCQCode(img)
CallFormatWeb ==
    /\ ret.media.gotype \in NetTypes
    /\ ret.op # "FormatWeb"
    /\ ret' = [ret EXCEPT !.op = "FormatWeb", !.out = FormatCQCode(ret.media, << >>)]
    /\ UNCHANGED <<StrictCommand, hook, ws, ev>>

\* bot.NewMessage(chatID, chatType): the sender stays in ret for the calls
\* chained on it: ret.msg is its cache, ret.chat its chat, ret.added the
\* media the builder calls appended so far.
CallNewMessage ==
    /\ Idle
    /\ \E id \in ChatIDs : \E ty \in ChatTypes :
        ret' = [NoRet EXCEPT !.op = "NewMessage", !.chat = [ChatID |-> id, ChatType |-> ty]]
    /\ UNCHANGED <<StrictCommand, hook, ws, ev>>

Chaining == ret.op \in {"NewMessage", "Builder"} /\ Len(ret.added) < MaxChain

\* n := clone(sender); n.cache = append(n.cache, media); return n
Chained(media) ==
    ret' = [ret EXCEPT !.op = "Builder", !.msg = Append(clone(ret.msg), media),
                       !.added = Append(ret.added, media)]

CallText ==
    /\ Chaining
    /\ \E text \in PlainWords : Chained(Text(text))
    /\ UNCHANGED <<StrictCommand, hook, ws, ev>>

CallNewLine ==
    /\ Chaining
    /\ Chained(Text("\n"))
    /\ UNCHANGED <<StrictCommand, hook, ws, ev>>

CallAt ==
    /\ Chaining
    /\ \E qq \in {"1232332333"} :
         Chained([ZeroStruct("At") EXCEPT !.Data["qq"] = StrV(qq)])
    /\ UNCHANGED <<StrictCommand, hook, ws, ev>>

CallFace ==
    /\ Chaining
    /\ \E faceID \in {14, 170} : Chained(Face(faceID))
    /\ UNCHANGED <<StrictCommand, hook, ws, ev>>

\* The face is appended when the name is known.
CallFaceByName ==
    /\ Chaining
    /\ \E faceName \in {"OK", "ok"} : \E r \in {NewFaceFromName(faceName)} :
         IF r.err = "" THEN Chained(r.face)
         ELSE ret' = [ret EXCEPT !.op = "Builder", !.msg = clone(ret.msg)]
    /\ UNCHANGED <<StrictCommand, hook, ws, ev>>

CallImageWeb ==
    /\ Chaining
    /\ \E u \in WebURLs : Chained(NewImageWeb(u))
    /\ UNCHANGED <<StrictCommand, hook, ws, ev>>

\* sender.Send(): bot.SendMessage(sender.ChatID, sender.ChatType,
\* sender.cache); ret.outMsg and ret.sentTo are the message and the chat
\* handed to it.
CallSend ==
    /\ ret.op \in {"NewMessage", "Builder"}
    /\ ret' = [ret EXCEPT !.op = "Send", !.outMsg = ret.msg, !.sentTo = ret.chat,
                          !.msg = << >>]
    /\ UNCHANGED <<StrictCommand, hook, ws, ev>>

\* NewBotAPI(token, api, secret) and bot.ListenForWebhook(config)
CallListenForWebhook ==
    /\ ~hook.listening
    /\ \E secret \in Secrets : hook' = [NoHook EXCEPT !.listening = TRUE, !.Secret = secret]
    /\ UNCHANGED <<StrictCommand, ret, ws, ev>>

\* A request arrives; its handler, in a goroutine of its own, runs up to
\* the channel send, or returns, or panics.
Post ==
    /\ hook.listening
    /\ Len(hook.log) < MaxRequests
    /\ \E body \in Bodies : \E header \in Headers(body) :
       \E o \in {Handle(hook.Secret, header, body)} :
        hook' = [hook EXCEPT
                   !.log = Append(@, [body |-> body, header |-> header, outcome |-> o,
                                      before |-> { hook.ch[i] : i \in 1..Len(hook.ch) }
                                                 \cup { hook.got[i] : i \in 1..Len(hook.got) }]),
                   !.pending = IF o = "send" THEN @ \cup {Len(hook.log) + 1} ELSE @]
    /\ UNCHANGED <<StrictCommand, ret, ws, ev>>

\* ch <- update in one of the handlers (line 636); it blocks while the
\* channel is full.
Deliver ==
    /\ Len(hook.ch) < Buffer
    /\ \E id \in hook.pending :
        hook' = [hook EXCEPT !.ch = Append(@, id), !.pending = @ \ {id}]
    /\ UNCHANGED <<StrictCommand, ret, ws, ev>>

\* The application receives from the channel.
Receive ==
    /\ hook.ch # << >>
    /\ hook' = [hook EXCEPT !.got = Append(@, Head(hook.ch)), !.ch = Tail(@)]
    /\ UNCHANGED <<StrictCommand, ret, ws, ev>>

\* NewMessageSegment(e), then CQString of the segment; ret.out2 is
\* FormatCQCode(e).
CallSegmentCQString ==
    /\ Idle
    /\ \E e \in StructElements \cup TextElements :
       \E seg \in {NewMessageSegment(e)} : \E ord \in Orders(DOMAIN seg.Data) :
        ret' = [NoRet EXCEPT !.op = "SegmentCQString", !.media = e,
                             !.out = FormatCQCode(seg, ord),
                             !.out2 = FormatCQCode(e, << >>)]
    /\ UNCHANGED <<StrictCommand, hook, ws, ev>>

\* ev.On(event)(handler)
CallOn ==
    /\ ev.ons < MaxOn
    /\ \E event \in EvEvents : \E handler \in EvHandlers :
        ev' = [ev EXCEPT !.op = "On", !.event = event, !.handler = handler,
                         !.before = ev.subscribers, !.ons = @ + 1,
                         !.subscribers = On(ev.subscribers, event, handler),
                         !.unsubs = @ \cup {<<event, handler>>}]
    /\ UNCHANGED <<StrictCommand, ret, hook, ws>>

\* ev.Off(event)(handler)
CallOff ==
    /\ \E event \in EvEvents : \E handler \in EvHandlers :
        ev' = [ev EXCEPT !.op = "Off", !.event = event, !.handler = handler,
                         !.before = ev.subscribers,
                         !.subscribers = Off(ev.subscribers, event, handler)]
    /\ UNCHANGED <<StrictCommand, ret, hook, ws>>

\* unsubscribe(), for an Unsubscribe that On returned
CallUnsubscribe ==
    /\ \E u \in ev.unsubs :
        ev' = [ev EXCEPT !.op = "Unsubscribe", !.event = u[1], !.handler = u[2],
                         !.before = ev.subscribers,
                         !.subscribers = Off(ev.subscribers, u[1], u[2])]
    /\ UNCHANGED <<StrictCommand, ret, hook, ws>>

\* An update is put on the updates channel.
PushUpdate ==
    /\ Len(ev.pushed) < MaxUpdates
    /\ \E update \in EvUpdates :
        ev' = [ev EXCEPT !.channel = Append(@, update), !.pushed = Append(@, update)]
    /\ UNCHANGED <<StrictCommand, ret, hook, ws>>

\* One turn of the loop of lines 18-44.
Dispatch ==
    /\ ev.channel # << >>
    /\ ev' = [ev EXCEPT !.op = "Dispatch", !.channel = Tail(@),
                        !.taken = Append(@, Head(ev.channel)),
                        !.before = ev.subscribers,
                        !.update = Head(ev.channel),
                        !.calls = EmitAll(ev.subscribers, EventsOf(Head(ev.channel)),
                                          Head(ev.channel))]
    /\ UNCHANGED <<StrictCommand, ret, hook, ws>>

\* makeWSRequest, lines 215-218: the echo is taken under EchoMux.
TakeEcho(r) ==
    /\ ~ws.crashed
    /\ ws.reqs[r].pc = "start"
    /\ ws' = [ws EXCEPT !.Echo = @ + 1, !.reqs[r].pc = "insert",
                        !.reqs[r].echo = ws.Echo + 1]
    /\ UNCHANGED <<StrictCommand, ret, hook, ev>>

\* Lines 232-233: the channel is made and the write to the map begins.
BeginInsert(r) ==
    /\ ~ws.crashed
    /\ ws.reqs[r].pc = "insert"
    /\ ws' \in Outcomes([Accessed(ws, Holder(r), Inserting(ws)) EXCEPT
                            !.reqs[r].pc = "inserting"], Inserting(ws))
    /\ UNCHANGED <<StrictCommand, ret, hook, ev>>

\* Line 233: the write to the map ends.
EndInsert(r) ==
    /\ ~ws.crashed
    /\ ws.reqs[r].pc = "inserting"
    /\ ws' = [ws EXCEPT !.WSPendingRequests = @ \cup {ws.reqs[r].echo},
                        !.reqs[r].pc = "send"]
    /\ UNCHANGED <<StrictCommand, ret, hook, ev>>

\* Lines 234-238: the request is sent; when that fails the echo is deleted
\* and the error returned.
Send(r) ==
    /\ ~ws.crashed
    /\ ws.reqs[r].pc = "send"
    /\ \/ ws' = [ws EXCEPT !.reqs[r].pc = "select"]
       \/ ws' \in Outcomes([Accessed(ws, Holder(r), Inserting(ws)) EXCEPT
                               !.WSPendingRequests = @ \ {ws.reqs[r].echo},
                               !.reqs[r].pc = "done", !.reqs[r].err = "send"],
                            Inserting(ws))
    /\ UNCHANGED <<StrictCommand, ret, hook, ev>>

\* Lines 240-242 with line 140: the reader's send and the requester's
\* receive meet on the unbuffered channel, and the requester returns.
ReceiveResponse(r) ==
    /\ ~ws.crashed
    /\ ws.reqs[r].pc = "select"
    /\ ws.reader.pc = "send"
    /\ ws.reader.ch = ws.reqs[r].echo
    /\ ws' = [ws EXCEPT !.reqs[r].pc = "done", !.reqs[r].resp = ws.reader.resp,
                        !.reader.pc = "close",
                        !.carried = Append(@, ws.reqs[r].echo),
                        !.sentOnClosed = @ \/ ws.reqs[r].echo \in ws.closed]
    /\ UNCHANGED <<StrictCommand, ret, hook, ev>>

\* Line 243: the timer fires and select takes its case.
Timeout(r) ==
    /\ ~ws.crashed
    /\ ws.reqs[r].pc = "select"
    /\ ws' = [ws EXCEPT !.reqs[r].pc = "lock"]
    /\ UNCHANGED <<StrictCommand, ret, hook, ev>>

\* Line 244
LockAfterTimeout(r) ==
    /\ ~ws.crashed
    /\ ws.reqs[r].pc = "lock"
    /\ ws.WSPendingMux = FreeMux
    /\ ws' = [ws EXCEPT !.WSPendingMux = Holder(r), !.reqs[r].pc = "locked"]
    /\ UNCHANGED <<StrictCommand, ret, hook, ev>>

\* Lines 245-248
ReturnTimeout(r) ==
    /\ ~ws.crashed
    /\ ws.reqs[r].pc = "locked"
    /\ ws' \in Outcomes(TimeoutCase(Accessed(ws, Holder(r), Inserting(ws)), r),
                         Inserting(ws))
    /\ UNCHANGED <<StrictCommand, ret, hook, ev>>

\* Lines 130-138: the reader reads a response and goes on to the next one
\* unless its echo is a number.
ReaderReceive ==
    /\ ~ws.crashed
    /\ ws.reader.pc = "receive"
    /\ ws.received < MaxResponses
    /\ \E resp \in Responses :
        ws' = [ws EXCEPT !.received = @ + 1,
                         !.reader = IF IsFloat64(resp)
                                    THEN [pc |-> "lock", resp |-> resp, ch |-> 0,
                                          found |-> FALSE]
                                    ELSE [pc |-> "receive", resp |-> NoResponse,
                                          ch |-> 0, found |-> FALSE]]
    /\ UNCHANGED <<StrictCommand, ret, hook, ev>>

\* Line 139
ReaderLock ==
    /\ ~ws.crashed
    /\ ws.reader.pc = "lock"
    /\ ws.WSPendingMux = FreeMux
    /\ ws' = [ws EXCEPT !.WSPendingMux = ReaderHolds, !.reader.pc = "lookup"]
    /\ UNCHANGED <<StrictCommand, ret, hook, ev>>

\* Line 140, the lookup: with a pending request the reader goes on to send
\* on its channel, where a send on a closed channel ends the process;
\* without one it unlocks (line 145).
ReaderLookup ==
    /\ ~ws.crashed
    /\ ws.reader.pc = "lookup"
    /\ \E to \in {Route(ws.WSPendingRequests, ws.reader.resp)} :
        ws' \in Outcomes(
                 IF to = {}
                 THEN [Accessed(ws, ReaderHolds, Inserting(ws)) EXCEPT
                          !.reader.pc = "receive", !.WSPendingMux = FreeMux]
                 ELSE [Accessed(ws, ReaderHolds, Inserting(ws)) EXCEPT
                          !.reader.pc = "send", !.reader.found = TRUE,
                          !.reader.ch = CHOOSE e \in to : TRUE,
                          !.sentOnClosed = @ \/ to \subseteq ws.closed,
                          !.crashed = to \subseteq ws.closed],
                 Inserting(ws))
    /\ UNCHANGED <<StrictCommand, ret, hook, ev>>

\* Lines 142-145: close, delete, unlock.
ReaderClose ==
    /\ ~ws.crashed
    /\ ws.reader.pc = "close"
    /\ ws' \in Outcomes(
             [Close(Accessed(ws, ReaderHolds, Inserting(ws)), ws.reader.ch) EXCEPT
                 !.WSPendingRequests = @ \ {IntOf(ws.reader.resp)},
                 !.WSPendingMux = FreeMux,
                 !.reader.pc = "receive"],
             Inserting(ws))
    /\ UNCHANGED <<StrictCommand, ret, hook, ev>>

\* One step of requester r.
Requester(r) ==
    \/ TakeEcho(r)
    \/ BeginInsert(r)
    \/ EndInsert(r)
    \/ Send(r)
    \/ ReceiveResponse(r)
    \/ Timeout(r)
    \/ LockAfterTimeout(r)
    \/ ReturnTimeout(r)

\* NewFaceFromName(str)
CallNewFaceFromName ==
    /\ Idle
    /\ \E n \in FaceNameInputs : \E r \in {NewFaceFromName(n.str)} :
        ret' = [NoRet EXCEPT !.op = "NewFaceFromName", !.str = n.str, !.head = n.core,
                             !.outMedia = r.face, !.err = r.err]
    /\ UNCHANGED <<StrictCommand, hook, ws, ev>>

\* f.Name()
CallName ==
    /\ Idle
    /\ \E id \in FaceIDs : \E r \in {Name(Face(id))} :
        ret' = [NoRet EXCEPT !.op = "Name", !.media = Face(id),
                             !.out = r.name, !.err = r.err]
    /\ UNCHANGED <<StrictCommand, hook, ws, ev>>

\* m.CQString()
CallCQString ==
    /\ Idle
    /\ \E m \in Messages : \E ords \in OrdersOfMessage(m) :
        ret' = [NoRet EXCEPT !.op = "CQString", !.msg = m,
                             !.out = CQString(m, ords)]
    /\ UNCHANGED <<StrictCommand, hook, ws, ev>>

\* m.CQString() evaluated twice on the same Message: each evaluation
\* ranges over the Data map of a pass-through segment in an order of its own
\* (lines 406-411).
CallCQStringTwice ==
    /\ Idle
    /\ \E m \in Messages : \E ords1 \in OrdersOfMessage(m) : \E ords2 \in OrdersOfMessage(m) :
        ret' = [NoRet EXCEPT !.op = "CQStringTwice", !.msg = m,
                             !.out = CQString(m, ords1),
                             !.out2 = CQString(m, ords2)]
    /\ UNCHANGED <<StrictCommand, hook, ws, ev>>

\* ParseMessageFromString(s)
CallParseMessageFromString ==
    /\ Idle
    /\ \E s \in PayloadStrings \cup MarkerStrings :
       \E ord \in Orders(FoldKeysOfString(s)) :
       \E z \in BOOLEAN :
        ret' = [NoRet EXCEPT !.op = "ParseMessageFromString", !.str = s,
                             !.emptyIsZero = z,
                             !.outMsg = ParseMessageFromString(s, ord, z)]
    /\ UNCHANGED <<StrictCommand, hook, ws, ev>>

\* ParseCQCode(s, &target)
CallParseCQCode ==
    /\ Idle
    /\ \E s \in PlainStrings \cup MarkerStrings : \E target \in Targets : \E z \in BOOLEAN :
       \E ord \in Orders(IF IsCQCode(s) THEN FoldKeys(ParseSegment(s).Data, target.gotype) ELSE {}) :
       \E r \in {ParseCQCode(s, target, ord, z)} :
        ret' = [NoRet EXCEPT !.op = "ParseCQCode", !.str = s, !.media = target,
                             !.emptyIsZero = z,
                             !.outMedia = r.media, !.err = r.err]
    /\ UNCHANGED <<StrictCommand, hook, ws, ev>>

\* FormatCQCode(e), then ParseMessageFromString of the result and
\* ParseCQCode of the result into a fresh value of e's type.
CallFormatThenParse ==
    /\ Idle
    /\ \E e \in StructElements \cup TextElements : \E z \in BOOLEAN :
       \E s \in {FormatCQCode(e, << >>)} :
       \E ord \in Orders(FoldKeysOfString(s)) :
       \E r \in {ParseCQCode(s, ZeroStruct(e.gotype), ord, z)} :
        ret' = [NoRet EXCEPT !.op = "FormatThenParse", !.media = e,
                             !.emptyIsZero = z, !.out = s,
                             !.outMsg = ParseMessageFromString(s, ord, z),
                             !.outMedia = r.media, !.err = r.err]
    /\ UNCHANGED <<StrictCommand, hook, ws, ev>>

\* ParseMessageFromString(s), then CQString of the result
CallParseThenCQString ==
    /\ Idle
    /\ \E s \in MarkerStrings \cup PayloadStrings : \E z \in BOOLEAN :
       \E ord \in Orders(FoldKeysOfString(s)) :
       \E m \in {ParseMessageFromString(s, ord, z)} :
       \E ords \in OrdersOfMessage(m) :
        ret' = [NoRet EXCEPT !.op = "ParseThenCQString", !.str = s,
                             !.emptyIsZero = z, !.outMsg = m,
                             !.out = CQString(m, ords)]
    /\ UNCHANGED <<StrictCommand, hook, ws, ev>>

Next ==
    \/ Return
    \/ SetStrictCommand
    \/ CallCQText
    \/ CallCQCodeText
    \/ CallIsCommand
    \/ CallCommand
    \/ CallParseMessage
    \/ CallCQStringTwice
    \/ CallNewWeb
    \/ CallEnableCache
    \/ CallDisableCache
    \/ CallFormatWeb
    \/ CallNewMessage
    \/ CallText
    \/ CallNewLine
    \/ CallAt
    \/ CallFace
    \/ CallFaceByName
    \/ CallImageWeb
    \/ CallSend
    \/ CallSegmentCQString
    \/ CallCommandSentinels
    \/ CallOn
    \/ CallOff
    \/ CallUnsubscribe
    \/ PushUpdate
    \/ Dispatch
    \/ CallListenForWebhook
    \/ Post
    \/ Deliver
    \/ Receive
    \/ CallNewFaceFromName
    \/ CallName
    \/ CallCQString
    \/ CallParseMessageFromString
    \/ CallParseCQCode
    \/ CallFormatThenParse
    \/ CallParseThenCQString
    \/ \E r \in Requesters : Requester(r)
    \/ ReaderReceive
    \/ ReaderLock
    \/ ReaderLookup
    \/ ReaderClose

Spec == Init /\ [][Next]_vars

(***************************************************************************)
(* The calls by group: each specification makes the calls of one part of   *)
(* the package.                                                            *)
(***************************************************************************)
NextEscape == Return \/ CallCQText \/ CallCQCodeText

SpecEscape == Init /\ [][NextEscape]_vars

NextFormat == Return \/ CallFormatThenParse \/ CallCQString

SpecFormat == Init /\ [][NextFormat]_vars

NextParse == Return \/ CallParseMessageFromString \/ CallParseThenCQString

SpecParse == Init /\ [][NextParse]_vars

NextParseCQCode == Return \/ CallParseCQCode

SpecParseCQCode == Init /\ [][NextParseCQCode]_vars

NextTwice == Return \/ CallCQStringTwice

SpecTwice == Init /\ [][NextTwice]_vars

NextWeb == Return \/ CallNewWeb \/ CallEnableCache \/ CallDisableCache \/ CallFormatWeb

SpecWeb == Init /\ [][NextWeb]_vars

NextSender ==
    \/ Return
    \/ CallNewMessage
    \/ CallText
    \/ CallNewLine
    \/ CallAt
    \/ CallFace
    \/ CallFaceByName
    \/ CallImageWeb
    \/ CallSend

SpecSender == Init /\ [][NextSender]_vars

NextHook == CallListenForWebhook \/ Post \/ Deliver \/ Receive

SpecHook == Init /\ [][NextHook]_vars

NextSegment == Return \/ CallSegmentCQString

SpecSegment == Init /\ [][NextSegment]_vars

NextSentinel == Return \/ SetStrictCommand \/ CallCommandSentinels

SpecSentinel == Init /\ [][NextSentinel]_vars

NextEv == CallOn \/ CallOff \/ CallUnsubscribe \/ PushUpdate \/ Dispatch

SpecEv == Init /\ [][NextEv]_vars

\* The WebSocket API client: the requesters and the reader.
NextWS ==
    \/ \E r \in Requesters : Requester(r)
    \/ ReaderReceive
    \/ ReaderLock
    \/ ReaderLookup
    \/ ReaderClose

SpecWS == Init /\ [][NextWS]_vars

\* The same with the scheduling of the Go runtime: a goroutine that can
\* take a step takes it, the timer of a waiting request fires, and a
\* goroutine waiting for the mutex gets it once it stays free.  No
\* condition is put on the server: ReaderReceive may never happen.
SpecWSFair ==
    /\ Init
    /\ [][NextWS]_vars
    /\ \A r \in Requesters : WF_vars(Requester(r))
    /\ WF_vars(ReaderLock \/ ReaderLookup \/ ReaderClose)

NextFace == Return \/ CallNewFaceFromName \/ CallName

SpecFace == Init /\ [][NextFace]_vars

NextParseMessage == Return \/ CallParseMessage

SpecParseMessage == Init /\ [][NextParseMessage]_vars

NextCommand == Return \/ SetStrictCommand \/ CallIsCommand \/ CallCommand

SpecCommand == Init /\ [][NextCommand]_vars

(***************************************************************************)
(* C1                                                                      *)
(***************************************************************************)
\* C1: escaping round-trips in both contexts: decoding the encoding of a
\* string gives the string back, for plain text and for marker values, also
\* when the string holds escape-like text; and the text "[,]&" encodes to
\* "&#91;,&#93;&amp;".
C1_EscapeRoundTrip ==
    /\ ret.op \in {"CQText", "CQCodeText"} => ret.out2 = ret.str
    /\ (ret.op = "CQText" /\ ret.str = "[,]&") => ret.out = "&#91;,&#93;&amp;"

C1_Witness ==
    /\ ret.op = "CQCodeText"
    /\ ret.str = "&#91;he&#44;ym&amp;"
    /\ ret.out = "&amp;#91;he&amp;#44;ym&amp;amp;"
    /\ ret.out2 = ret.str

(***************************************************************************)
(* C2                                                                      *)
(***************************************************************************)
\* C2: encoded plain text is never decoded as a marker: parsing the encoding
\* of a Text element, whatever its content, gives Text elements only.
C2_TextStaysText ==
    (ret.op = "FormatThenParse" /\ ret.media.gotype = "Text") =>
        \A i \in 1..Len(ret.outMsg) : ret.outMsg[i].gotype = "Text"

C2_Witness ==
    /\ ret.op = "FormatThenParse"
    /\ ret.media = Text("[CQ:at,qq=all]")
    /\ ret.out = "&#91;CQ:at,qq=all&#93;"
    /\ ret.outMsg = <<Text("[CQ:at,qq=all]")>>

(***************************************************************************)
(* C3                                                                      *)
(***************************************************************************)
\* The encodings FormatCQCode may return for an element.
Formats(e) == { FormatCQCode(e, o) : o \in Orders(RangedKeys(e)) }

\* Every encoding of an element has the same length.
FormatLen(e) == Len(FormatCQCode(e, SeqOfSet(RangedKeys(e))))

RECURSIVE OffsetOf(_, _)
OffsetOf(m, i) == IF i <= 1 THEN 0 ELSE OffsetOf(m, i - 1) + FormatLen(m[i - 1])

\* C3: Message.CQString is the concatenation, in element order and with no
\* separator, of FormatCQCode of every element: the i-th encoding lies in
\* the result right after the first i-1 ones and the result ends with the
\* last; the empty message gives the empty string.
C3_CQStringConcatenates ==
    ret.op = "CQString" =>
        /\ Len(ret.out) = OffsetOf(ret.msg, Len(ret.msg) + 1)
        /\ \A i \in 1..Len(ret.msg) :
              SubSeq(ret.out, OffsetOf(ret.msg, i) + 1, OffsetOf(ret.msg, i + 1))
                  \in Formats(ret.msg[i])
        /\ ret.msg = << >> => ret.out = ""

C3_Witness ==
    /\ ret.op = "CQString"
    /\ Len(ret.msg) = 2
    /\ ret.msg[1].gotype = "Record"
    /\ ret.msg[2] = Text("[,]&")
    /\ ret.out = "[CQ:record,file=/data/audio/&#91;&#44;&#93;&amp;,magic=false,url=]&#91;,&#93;&amp;"

(***************************************************************************)
(* C4                                                                      *)
(***************************************************************************)
\* The text of a match, the kind it names (up to the first comma) and the
\* text between the matches: gap k lies before match k, gap n+1 after the
\* last match.
MatchText(str, cqc) == Slice(str, cqc[1], cqc[2])

KindOfMarker(m) ==
    LET body == SubSeq(m, 5, Len(m) - 1)
        j == IndexFrom(body, ",", 1)
    IN  IF j = 0 THEN body ELSE SubSeq(body, 1, j - 1)

Gap(str, res, k) ==
    Slice(str, IF k = 1 THEN 0 ELSE res[k - 1][2],
               IF k = Len(res) + 1 THEN Len(str) ELSE res[k][1])

GapsUpTo(str, res, k) == Cardinality({ j \in 1..k : Gap(str, res, j) # "" })

PosOfMatch(str, res, k) == k + GapsUpTo(str, res, k)

PosOfGap(str, res, k) == (k - 1) + GapsUpTo(str, res, k)

\* The matches are the leftmost, shortest, non-overlapping ones.
LeftToRightMatches(str, res) ==
    /\ \A k \in 1..Len(res) :
          LET m == MatchText(str, res[k])
          IN  /\ (IF k = 1 THEN 0 ELSE res[k - 1][2]) <= res[k][1]
              /\ HasPrefixAt(m, "[CQ:", 1)
              /\ IndexFrom(m, "]", 5) = Len(m)
              /\ IndexFrom(Gap(str, res, k), "[CQ:", 1) = 0
    /\ LET last == Gap(str, res, Len(res) + 1)
       IN  \A p \in 1..Len(last) :
              HasPrefixAt(last, "[CQ:", p) => IndexFrom(last, "]", p + 4) = 0

ScanShape(str, msg, res) ==
    /\ LeftToRightMatches(str, res)
    /\ Len(msg) = Len(res) + GapsUpTo(str, res, Len(res) + 1)
    /\ \A k \in 1..(Len(res) + 1) :
          Gap(str, res, k) # "" =>
              msg[PosOfGap(str, res, k)] = Text(DecodeCQCodeText(Gap(str, res, k)))

ElementOfKind(e, kind) ==
    /\ e.gotype = VariantOf(kind)
    /\ FunctionName(e) = kind

\* C4 as claimed: every match becomes one element of the variant selected
\* by its kind, every non-empty gap one Text element holding the unescaped
\* gap, in the order of the input.
C4_Original ==
    ret.op = "ParseMessageFromString" =>
        LET res == FindAllCQ(ret.str)
        IN  /\ ScanShape(ret.str, ret.outMsg, res)
            /\ \A k \in 1..Len(res) :
                  ElementOfKind(ret.outMsg[PosOfMatch(ret.str, res, k)],
                                KindOfMarker(MatchText(ret.str, res[k])))

\* C4, amended: ParseMessageFromString scans the input left to right; every
\* match of "[CQ:" ... "]" longer than five characters becomes one element of
\* the variant selected by its kind, the five-character match "[CQ:]" becomes
\* a Text element holding "[CQ:]", every non-empty gap before, between or
\* after the matches becomes one Text element holding the unescaped gap, and
\* the elements are in the order of the input ("A[CQ:shake]B" gives Text
\* "A", Shake, Text "B").
C4_ScanLeftToRight ==
    ret.op = "ParseMessageFromString" =>
        LET res == FindAllCQ(ret.str)
        IN  /\ ScanShape(ret.str, ret.outMsg, res)
            /\ \A k \in 1..Len(res) :
                  LET m == MatchText(ret.str, res[k])
                      e == ret.outMsg[PosOfMatch(ret.str, res, k)]
                  IN  IF Len(m) > 5 THEN ElementOfKind(e, KindOfMarker(m))
                      ELSE e = Text("[CQ:]")
            /\ ret.str = "A[CQ:shake]B" =>
                  ret.outMsg = <<Text("A"), ZeroStruct("Shake"), Text("B")>>

C4_Witness ==
    /\ ret.op = "ParseMessageFromString"
    /\ ret.str = "&#91;he&#44;ym[CQ:face,id=14]B"
    /\ Len(ret.outMsg) = 3
    /\ ret.outMsg[1] = Text("[he,ym")
    /\ ret.outMsg[2].gotype = "Face" /\ ret.outMsg[2].Data["id"] = IntV(14)
    /\ ret.outMsg[3] = Text("B")

(***************************************************************************)
(* C5                                                                      *)
(***************************************************************************)
\* C5: element round trip: for every struct variant with populated fields,
\* and every Text that is not empty, parsing the encoding gives the element
\* back field for field, through ParseMessageFromString (a message of that
\* one element) and through ParseCQCode into a fresh value of the variant
\* (without error).  An empty Text encodes to the empty string, which
\* ParseCQCode reads back and ParseMessageFromString reads as no element.
C5_ElementRoundTrip ==
    ret.op = "FormatThenParse" =>
        /\ ret.outMedia = ret.media
        /\ ret.err = ""
        /\ ret.media # Text("") => ret.outMsg = <<ret.media>>

C5_Witness ==
    /\ ret.op = "FormatThenParse"
    /\ ret.media.gotype = "Record"
    /\ ret.media.Data["file"] = StrV("[,]&")
    /\ ret.media.Data["magic"] = BoolV(TRUE)
    /\ ret.out = "[CQ:record,file=&#91;&#44;&#93;&amp;,magic=true,url=]"
    /\ ret.outMsg = <<ret.media>>
    /\ ret.outMedia = ret.media

(***************************************************************************)
(* C6, C7                                                                  *)
(***************************************************************************)
\* A string that is one marker, its kind and its pairs.
SingleMarker(str) == IsCQCode(str) /\ FindAllCQ(str) = << <<0, Len(str)>> >>

PairsOfMarker(str) == Tail(Split(SubSeq(str, 5, Len(str) - 1), ","))

HasEq(pair) == IndexFrom(pair, "=", 1) # 0

KeyOfPair(pair) == SubSeq(pair, 1, IndexFrom(pair, "=", 1) - 1)

ValueOfPair(pair) == SubSeq(pair, IndexFrom(pair, "=", 1) + 1, Len(pair))

\* The value is what the encoder writes for some value of the type.
EncoderForm(v, ty) ==
    CASE ty = "string" -> EncodeCQCodeText(DecodeCQCodeText(v)) = v
      [] ty = "int" -> ParseInt(v).ok /\ Itoa(ParseInt(v).n) = v
      [] ty = "bool" -> v \in {"true", "false"}

TagIndex(gotype, tag) ==
    LET f == StructFields(gotype) IN CHOOSE i \in 1..Len(f) : f[i][1] = tag

\* A marker of a known kind whose pairs are fields of the variant, each at
\* most once and in the declared order, with values in the encoder's form.
WellFormedKnown(str) ==
    /\ SingleMarker(str)
    /\ LET gotype == VariantOf(KindOfMarker(str))
           pairs == PairsOfMarker(str)
       IN  /\ gotype # "MessageSegment"
           /\ \A i \in 1..Len(pairs) :
                 /\ HasEq(pairs[i])
                 /\ KeyOfPair(pairs[i]) \in Tags(gotype)
                 /\ EncoderForm(ValueOfPair(pairs[i]),
                                TypeOfTag(gotype, KeyOfPair(pairs[i])))
           /\ \A i, j \in 1..Len(pairs) :
                 i < j => TagIndex(gotype, KeyOfPair(pairs[i]))
                            < TagIndex(gotype, KeyOfPair(pairs[j]))

ListsAllFields(str) ==
    Len(PairsOfMarker(str)) = Len(StructFields(VariantOf(KindOfMarker(str))))

\* C6 as claimed, for the kinds that are written as markers: a well-formed
\* marker of a known kind, listing all of the variant's fields or some of
\* them, is reproduced by parsing and encoding.
C6_Original ==
    (ret.op = "ParseThenCQString" /\ WellFormedKnown(ret.str)
        /\ KindOfMarker(ret.str) # "text") => ret.out = ret.str

\* C6, amended: for a well-formed marker string s of a known kind other than
\* text, CQString(ParseMessageFromString(s)) == s exactly when s lists all of
\* the variant's fields; a marker listing only some of them is encoded with
\* every field of the variant, the missing ones at their zero values.
C6_StringRoundTrip ==
    (ret.op = "ParseThenCQString" /\ WellFormedKnown(ret.str)
        /\ KindOfMarker(ret.str) # "text") =>
        /\ ret.out = ret.str <=> ListsAllFields(ret.str)
        /\ Len(PairsOfMarker(ret.out))
              = Len(StructFields(VariantOf(KindOfMarker(ret.str))))

C6_Witness ==
    /\ ret.op = "ParseThenCQString"
    /\ ret.str = "[CQ:image,file=1.jpg,url=u&amp;v]"
    /\ WellFormedKnown(ret.str)
    /\ ret.outMsg[1].gotype = "Image"
    /\ ret.out = ret.str

\* A marker of an unknown kind with key=value pairs, every key once, the
\* values escaped.
WellFormedUnknown(str) ==
    /\ SingleMarker(str)
    /\ KindOfMarker(str) # ""
    /\ VariantOf(KindOfMarker(str)) = "MessageSegment"
    /\ LET pairs == PairsOfMarker(str)
       IN  /\ \A i \in 1..Len(pairs) :
                 HasEq(pairs[i]) /\ EncoderForm(ValueOfPair(pairs[i]), "string")
           /\ \A i, j \in 1..Len(pairs) :
                 i # j => KeyOfPair(pairs[i]) # KeyOfPair(pairs[j])

\* C7: a marker of an unknown kind is kept as a pass-through MessageSegment
\* element and encoding it gives the original marker string back: same kind,
\* keys, values and field order, for any number of fields.
C7_UnknownKindPreserved ==
    (ret.op = "ParseThenCQString" /\ WellFormedUnknown(ret.str)) =>
        /\ Len(ret.outMsg) = 1
        /\ ret.outMsg[1].gotype = "MessageSegment"
        /\ ret.out = ret.str

(***************************************************************************)
(* C8                                                                      *)
(***************************************************************************)
\* C8: ParseCQCode of a string that is no marker fails with "invalid cqcode"
\* for a target that is not a Text, and for a Text target succeeds and sets
\* the text to the unescaped string: "&#91;he&#44;ym" gives "[he,ym".
C8_NonMarker ==
    (ret.op = "ParseCQCode" /\ ~IsCQCode(ret.str)) =>
        /\ ret.media.gotype \notin {"Text", "MessageSegment"} =>
              ret.err = ErrInvalidCQCode
        /\ ret.media.gotype = "Text" =>
              /\ ret.err = ""
              /\ ret.str = "&#91;he&#44;ym" => ret.outMedia = Text("[he,ym")

(***************************************************************************)
(* C9                                                                      *)
(***************************************************************************)
IsStruct(media) == media.gotype \in StructTypes

\* The keys of the segment a field of the target is decoded from: the tag
\* itself, or failing that the keys equal to it ignoring case.
Sources(seg, media, tag) ==
    IF tag \in DOMAIN seg.Data THEN {tag}
    ELSE { k \in DOMAIN seg.Data : EqualFold(k, tag) }

\* The value of the segment under a key converts to the type of the field.
Converts(seg, media, tag, k, emptyIsZero) ==
    WeakConvert(seg.Data[k], TypeOfTag(media.gotype, tag), emptyIsZero).ok

Converted(seg, media, tag, k, emptyIsZero) ==
    WeakConvert(seg.Data[k], TypeOfTag(media.gotype, tag), emptyIsZero).v

\* C9 as claimed: a target of another kind gives the error "wrong media
\* type", matching kinds give no error, and every segment field whose key is
\* a field tag of the target is copied.
C9_Original ==
    (ret.op = "ParseCQCode" /\ IsCQCode(ret.str) /\ IsStruct(ret.media)) =>
        LET seg == ParseSegment(ret.str)
        IN  /\ ret.err = (IF seg.Type # FunctionName(ret.media)
                          THEN ErrWrongMediaType ELSE "")
            /\ \A tag \in Tags(ret.media.gotype) \cap DOMAIN seg.Data :
                  /\ Converts(seg, ret.media, tag, tag, ret.emptyIsZero)
                  /\ ret.outMedia.Data[tag]
                        = Converted(seg, ret.media, tag, tag, ret.emptyIsZero)

\* C9, amended: kind mismatch is flagged but decoding is best-effort.  Into
\* a struct target, every segment field whose key is a field tag of the
\* target (exactly, or failing that ignoring case) and whose value converts
\* to the field's type is copied into the target; a field whose value does
\* not convert, or that has no key in the segment, keeps its value.  When
\* the target's FunctionName differs from the segment's kind the error is
\* "wrong media type", wrapping the conversion error if a value did not
\* convert ("[CQ:face,id=14]" into Text: "wrong media type"); when the kinds
\* match no error is returned exactly when every value converts
\* ("[CQ:face,id=14]" into Face gives FaceID 14, "[CQ:face,id=x]" fails).
\* Into a MessageSegment target the segment is copied and no error returned.
C9_KindMismatch ==
    (ret.op = "ParseCQCode" /\ IsCQCode(ret.str)) =>
        LET seg == ParseSegment(ret.str)
            media == ret.media
            tags == Tags(media.gotype)
            ok(tag, k) == Converts(seg, media, tag, k, ret.emptyIsZero)
            allOk == \A tag \in tags : \A k \in Sources(seg, media, tag) : ok(tag, k)
            someBad == \E tag \in tags :
                          /\ Sources(seg, media, tag) # {}
                          /\ \A k \in Sources(seg, media, tag) : ~ok(tag, k)
        IN  IF media.gotype = "MessageSegment"
            THEN ret.err = "" /\ ret.outMedia = seg
            ELSE /\ seg.Type # FunctionName(media) =>
                       /\ HasPrefixAt(ret.err, ErrWrongMediaType, 1)
                       /\ allOk => ret.err = ErrWrongMediaType
                       /\ someBad => ret.err # ErrWrongMediaType
                 /\ seg.Type = FunctionName(media) =>
                       /\ allOk => ret.err = ""
                       /\ someBad => ret.err # ""
                 /\ \A tag \in tags :
                       ret.outMedia.Data[tag] \in
                           IF Sources(seg, media, tag) = {}
                           THEN {media.Data[tag]}
                           ELSE { IF ok(tag, k)
                                  THEN Converted(seg, media, tag, k, ret.emptyIsZero)
                                  ELSE media.Data[tag] :
                                     k \in Sources(seg, media, tag) }
                 /\ ret.str = "[CQ:face,id=14]" =>
                       /\ media.gotype = "Text" => ret.err = ErrWrongMediaType
                       /\ media.gotype = "Face" =>
                             ret.err = "" /\ ret.outMedia.Data["id"] = IntV(14)

C9_Witness ==
    /\ ret.op = "ParseCQCode"
    /\ ret.str = "[CQ:face,id=14]"
    /\ ret.media = ZeroStruct("Emoji")
    /\ ret.err = ErrWrongMediaType
    /\ ret.outMedia.Data["id"] = IntV(14)

RECURSIVE Unescape(_)
Unescape(w) ==
    IF Len(w) < 2 THEN w
    ELSE IF CharAt(w, 1) = "\\" /\ CharAt(w, 2) \in {"\\", "\"", "'"}
    THEN CharAt(w, 2) \o Unescape(SubSeq(w, 3, Len(w)))
    ELSE CharAt(w, 1) \o Unescape(SubSeq(w, 2, Len(w)))

\* The argument a word stands for: a quoted run without its quotes, any
\* other word as it is.
WordArg(w) ==
    IF w \in QuotedWords THEN Unescape(SubSeq(w, 2, Len(w) - 1)) ELSE w

\* The head is one token that starts with the prefix and holds no escape.
PrefixedHeads == { "/", "/cmd", "/[CQ:face,id=170]" }

StrictCommandCall(W) ==
    /\ ret.op = "Command"
    /\ StrictCommand
    /\ ret.head \in PrefixedHeads
    /\ \A i \in 1..Len(ret.words) : ret.words[i] \in W

WhitespaceOnly(str) == \A i \in 1..Len(str) : IsSpace(CharAt(str, i))

\* The first character of the first token, "" when there is no token.
FirstTokenChar(str) ==
    IF WhitespaceOnly(str) THEN ""
    ELSE CharAt(str, CHOOSE i \in 1..Len(str) :
                        /\ ~IsSpace(CharAt(str, i))
                        /\ \A j \in 1..(i - 1) : IsSpace(CharAt(str, j)))

\* C12: with StrictCommand on, Command returns an empty command and no
\* arguments when the first token does not start with "/", and an empty or
\* white-space-only input is no command: IsCommand is false and Command
\* returns nothing.
C12_NotACommand ==
    (ret.op = "Command" /\ StrictCommand) =>
        /\ FirstTokenChar(ret.str) # "/" => ret.cmd = "" /\ ret.args = << >>
        /\ WhitespaceOnly(ret.str) => ~ret.b /\ ret.cmd = "" /\ ret.args = << >>

C12_Witness ==
    /\ ret.op = "Command"
    /\ StrictCommand
    /\ ret.str = "cmd 'a b'"
    /\ ret.cmd = ""
    /\ ret.args = << >>

(***************************************************************************)
(* C20                                                                     *)
(***************************************************************************)
\* A token without the pair of quotes around it, if it has one.
StripMatched(tok) ==
    IF Len(tok) >= 2 /\ IsQuote(CharAt(tok, 1)) /\ CharAt(tok, Len(tok)) = CharAt(tok, 1)
    THEN SubSeq(tok, 2, Len(tok) - 1)
    ELSE tok

\* C20: every argument is its token with the matched quotes around it, and
\* nothing else, trimmed and then the escapes reversed; a quote character
\* that is not one of a matched surrounding pair is kept
\* ('a \'r <newline>g 2' gives a 'r <newline>g 2).
C20_ArgumentsTrimmed ==
    ret.op = "Command" =>
        LET strs == Tokens(Substituted(ret.str))
        IN  \A i \in 1..Len(ret.args) :
                ret.args[i] = Restored(StripMatched(strs[i + 1]))

(***************************************************************************)
(* C13                                                                     *)
(***************************************************************************)
\* C13: ParseMessage takes a string through the string decoder and any
\* other value through the array decoder; for an array of {type, data}
\* segments the result is, without error, a Message with one element per
\* segment in the same order, the known kinds as typed elements and the
\* other kinds as pass-through segments.
C13_ParseMessageDispatch ==
    ret.op = "ParseMessage" =>
        /\ ret.shape = "string" =>
              /\ ret.err = ""
              /\ Len(ret.outMsg) = Len(ParseMessageSegmentsFromString(ret.str))
        /\ ret.shape = "array" =>
              /\ ret.err = ""
              /\ Len(ret.outMsg) = Len(ret.msg)
              /\ \A i \in 1..Len(ret.msg) :
                    /\ ret.outMsg[i].gotype = VariantOf(ret.msg[i].Type)
                    /\ FunctionName(ret.outMsg[i]) = ret.msg[i].Type

(***************************************************************************)
(* C14                                                                     *)
(***************************************************************************)
\* C14: NewFaceFromName(name) returns the face with the table's id and no
\* error exactly when the name between its leading and trailing "/" is in
\* the name table, and the error "Unknown face" otherwise; Name returns
\* the table's name and no error for a known id, and otherwise the decimal
\* string of the id with the error "Unknown face".
C14_FaceLookups ==
    /\ ret.op = "NewFaceFromName" =>
          IF ret.head \in DOMAIN stringFace
          THEN ret.err = "" /\ ret.outMedia = Face(stringFace[ret.head])
          ELSE ret.err = ErrUnknownFace
    /\ ret.op = "Name" =>
          IF \E n \in DOMAIN stringFace : stringFace[n] = ret.media.Data["id"].i
          THEN /\ ret.err = ""
               /\ ret.out \in DOMAIN stringFace
               /\ stringFace[ret.out] = ret.media.Data["id"].i
          ELSE /\ ret.err = ErrUnknownFace
               /\ ParseInt(ret.out) = [ok |-> TRUE, n |-> ret.media.Data["id"].i]

C14_Witness ==
    /\ ret.op = "NewFaceFromName"
    /\ ret.str = "//OK/"
    /\ ret.err = ""
    /\ ret.outMedia = Face(124)

(***************************************************************************)
(* C15                                                                     *)
(***************************************************************************)
\* C15: encoding is deterministic: two evaluations of CQString on the same
\* Message return the same string, also when the Message holds pass-through
\* segments that carry several fields.
C15_Deterministic ==
    ret.op = "CQStringTwice" => ret.out = ret.out2

(***************************************************************************)
(* C16                                                                     *)
(***************************************************************************)
\* C16: a network-resource element encodes the inner element's fields in
\* declared order followed by its cache flag, "[CQ:image,file=<u>,url=,
\* cache=<flag>]"; the flag is 1 after construction and after EnableCache
\* and 0 after DisableCache, the last call deciding.
C16_CacheFlagEncoded ==
    ret.op = "FormatWeb" =>
        LET flag == IF ret.words = << >> \/ ret.words[Len(ret.words)] = "EnableCache"
                    THEN CacheEnabled ELSE CacheDisabled
            inner == ret.media.Data[InnerOf(ret.media.gotype)]
            f == StructFields(inner.gotype)
        IN  ret.out = "[CQ:" \o Join(<<FunctionNameOf(inner.gotype)>>
                                     \o [i \in 1..Len(f) |-> FormatKV(f[i][1], inner.Data[f[i][1]])]
                                     \o <<"cache=" \o Itoa(flag)>>, ",") \o "]"

(***************************************************************************)
(* C17                                                                     *)
(***************************************************************************)
\* C17: after bot.NewMessage(id, type) and any sequence of builder calls,
\* Send transmits to the chat (id, type) a message made of exactly the
\* media the builder calls added, in call order.
C17_SendsWhatWasChained ==
    ret.op = "Send" => ret.sentTo = ret.chat /\ ret.outMsg = ret.added

(***************************************************************************)
(* C18                                                                     *)
(***************************************************************************)
\* The updates put on the channel so far, oldest first.
Sent == hook.got \o hook.ch

SignedOnly ==
    hook.Secret # "" =>
        /\ \A i \in 1..Len(Sent) :
              LET r == hook.log[Sent[i]]
              IN  SubSeq(r.header, 6, Len(r.header)) = HexHMAC(hook.Secret, r.body)
        /\ \A id \in 1..Len(hook.log) :
              LET r == hook.log[id]
              IN  (r.header = "" \/ SubSeq(r.header, 6, Len(r.header)) # HexHMAC(hook.Secret, r.body))
                  => id \notin hook.pending /\ \A i \in 1..Len(Sent) : Sent[i] # id

AllWhenBlank ==
    hook.Secret = "" =>
        \A id \in 1..Len(hook.log) :
            id \in hook.pending \/ \E i \in 1..Len(Sent) : Sent[i] = id

\* C18 as stated: with a secret, only requests whose X-Signature after
\* "sha1=" is the hex HMAC-SHA1 of the body reach the channel and a wrong
\* or missing signature never does; with a blank secret every update is
\* delivered, in arrival order.
C18_Original ==
    /\ SignedOnly
    /\ AllWhenBlank
    /\ hook.Secret = "" => \A i, j \in 1..Len(Sent) : i < j => Sent[i] < Sent[j]

\* C18: as above, where the order kept is that of requests that do not
\* overlap: an update that was on the channel when a request arrived
\* precedes that request's update.
C18_WebhookSignature ==
    /\ SignedOnly
    /\ AllWhenBlank
    /\ \A j \in 1..Len(Sent) : \A id \in hook.log[Sent[j]].before :
          \E i \in 1..(j - 1) : Sent[i] = id
    /\ \A i, j \in 1..Len(Sent) : i # j => Sent[i] # Sent[j]

C18_Witness ==
    /\ hook.Secret # ""
    /\ Len(hook.got) >= 1
    /\ \E id \in 1..Len(hook.log) : hook.log[id].outcome = "return"
    /\ \E id \in 1..Len(hook.log) : hook.log[id].outcome = "panic"

(***************************************************************************)
(* C19                                                                     *)
(***************************************************************************)
\* A value with each of & [ ] , replaced by its entity, character by
\* character.
RECURSIVE EscapedValue(_)
EscapedValue(str) ==
    IF str = "" THEN ""
    ELSE (CASE CharAt(str, 1) = "&" -> "&amp;"
            [] CharAt(str, 1) = "[" -> "&#91;"
            [] CharAt(str, 1) = "]" -> "&#93;"
            [] CharAt(str, 1) = "," -> "&#44;"
            [] OTHER -> CharAt(str, 1))
         \o EscapedValue(SubSeq(str, 2, Len(str)))

\* ",key=value" for the declared fields of e from the i-th on.
RECURSIVE FieldsFrom(_, _)
FieldsFrom(e, i) ==
    IF i > Len(StructFields(e.gotype)) THEN ""
    ELSE "," \o StructFields(e.gotype)[i][1] \o "="
         \o EscapedValue(Sprint(e.Data[StructFields(e.gotype)[i][1]]))
         \o FieldsFrom(e, i + 1)

MarkerOf(e) == "[CQ:" \o FunctionNameOf(e.gotype) \o FieldsFrom(e, 1) \o "]"

NonText(e) == e.gotype \in StructTypes \ {"Text"}

\* C19: FormatCQCode of a non-text element is "[CQ:" and the kind, then for
\* every declared field of the variant, in declaration order and also when
\* it holds its zero value, ",key=" and the value with & [ ] , escaped,
\* then "]"; an element without fields gives "[CQ:kind]".
C19_MarkerGrammar ==
    /\ (ret.op = "FormatThenParse" /\ NonText(ret.media)) => ret.out = MarkerOf(ret.media)
    /\ (ret.op = "CQString" /\ Len(ret.msg) = 1 /\ NonText(ret.msg[1]))
          => ret.out = MarkerOf(ret.msg[1])
    /\ (ret.op = "CQString" /\ ret.msg = <<ZeroStruct("Shake")>>) => ret.out = "[CQ:shake]"

C19_Witness ==
    /\ ret.op = "CQString"
    /\ ret.msg = << [ZeroStruct("Record") EXCEPT !.Data["file"] = StrV("/data/audio/[,]&")] >>
    /\ ret.out = "[CQ:record,file=/data/audio/&#91;&#44;&#93;&amp;,magic=false,url=]"

(***************************************************************************)
(* C21                                                                     *)
(***************************************************************************)
\* C21: the two encoding paths agree: for every element e,
\* NewMessageSegment(e).CQString() equals FormatCQCode(e), also for
\* elements with several fields.
C21_PathsAgree ==
    ret.op = "SegmentCQString" => ret.out = ret.out2

(***************************************************************************)
(* C22                                                                     *)
(***************************************************************************)
\* C22: the sentinel substitution of Command is transparent: the command
\* and the arguments hold a sentinel only where the input held that text,
\* and a word of the input that holds such text and no backslash escape
\* comes back unaltered.
C22_SentinelsTransparent ==
    ret.op = "CommandSentinels" =>
        LET outs == {ret.cmd} \cup { ret.args[i] : i \in 1..Len(ret.args) }
            Holds(t, sub) == IndexFrom(t, sub, 1) # 0
        IN  /\ \A t \in outs : \A sub \in {Sentinel5c, Sentinel22, Sentinel27} :
                  Holds(t, sub) => Holds(ret.str, sub)
            /\ \A i \in 1..Len(ret.args) :
                  ~Holds(ret.words[i], "\\\\") => ret.args[i] = ret.words[i]

(***************************************************************************)
(* C23                                                                     *)
(***************************************************************************)
\* C23: IsCommand and Command agree: whenever IsCommand(s) is false, under
\* either setting of StrictCommand, Command(s) returns an empty command and
\* no arguments, also when whitespace precedes the prefix.
C23_IsCommandAgrees ==
    (ret.op = "Command" /\ ~ret.b) => (ret.cmd = "" /\ ret.args = << >>)

(***************************************************************************)
(* C28                                                                     *)
(***************************************************************************)
\* The calls made under one event, in the order they were made.
CallsUnder(event) == SelectSeq(ev.calls, LAMBDA c : c.event = event)

\* How general an event is: the number of its parts.
PartsOf(event) == Len(Split(event, "."))

C24_Terminates ==
    \A r \in Requesters :
        (ws.reqs[r].pc # "start") ~> (ws.reqs[r].pc = "done" \/ ws.crashed)

(***************************************************************************)
(* C25                                                                     *)
(***************************************************************************)
\* C25: every access to the WSPendingRequests map is made by a goroutine
\* that holds WSPendingMux, and no two goroutines are in the map at once.
C25_MapUnderMutex == ~ws.unguarded /\ ~ws.overlap

(***************************************************************************)
(* C26                                                                     *)
(***************************************************************************)
\* The calls that have taken their echo.
Started == {r \in Requesters : ws.reqs[r].pc # "start"}

\* The calls that returned a response.
Answered == {r \in Requesters : ws.reqs[r].resp # NoResponse}

\* C26, as stated: the calls get pairwise distinct echoes, and the response
\* a call returns carries a number equal to the call's own echo.
C26_Original ==
    /\ \A r1, r2 \in Started : r1 # r2 => ws.reqs[r1].echo # ws.reqs[r2].echo
    /\ \A r \in Answered :
          /\ ws.reqs[r].resp.kind = "number"
          /\ ws.reqs[r].resp.twice = 2 * ws.reqs[r].echo

\* C26, amended: the calls get pairwise distinct echoes, and the response a
\* call returns carries a number whose whole part is the call's own echo;
\* a response whose echo is absent or not a number is returned by no call,
\* and a call returns at most with the one response sent on its channel.
C26_RoutedByEcho ==
    /\ \A r1, r2 \in Started : r1 # r2 => ws.reqs[r1].echo # ws.reqs[r2].echo
    /\ \A r \in Answered :
          /\ ws.reqs[r].resp.kind = "number"
          /\ ws.reqs[r].resp.twice \in {2 * ws.reqs[r].echo, 2 * ws.reqs[r].echo + 1}
          /\ ws.reqs[r].pc = "done"
          /\ ws.reqs[r].err = ""
    /\ \A i \in 1..Len(ws.carried) : \E r \in Answered : ws.reqs[r].echo = ws.carried[i]

\* Two calls have returned their responses, the later call first.
C26_Witness ==
    /\ Answered = {1, 2}
    /\ Len(ws.carried) = 2
    /\ ws.carried[1] > ws.carried[2]

(***************************************************************************)
(* C27                                                                     *)
(***************************************************************************)
\* The channels that carried more than one response.
CarriedTwice ==
    {ws.carried[i] : i \in {j \in 1..Len(ws.carried) :
                               \E k \in 1..Len(ws.carried) :
                                   k # j /\ ws.carried[k] = ws.carried[j]}}

\* The calls that have returned.
Returned == {r \in Requesters : ws.reqs[r].pc = "done"}

\* C27, as stated: no channel is closed twice, nothing is sent on a closed
\* channel, each channel carries at most one response, and the echo of a
\* call that has returned is not in WSPendingRequests.
C27_Original ==
    /\ ~ws.closedTwice
    /\ ~ws.sentOnClosed
    /\ CarriedTwice = {}
    /\ \A r \in Returned : ws.reqs[r].echo \notin ws.WSPendingRequests

\* C27, amended: no channel is closed twice, nothing is sent on a closed
\* channel, each channel carries at most one response, and the echo of a
\* call that has returned is not in WSPendingRequests once the reader, if
\* it was the one to answer the call, has left its critical section.
C27_ChannelsSafe ==
    /\ ~ws.closedTwice
    /\ ~ws.sentOnClosed
    /\ CarriedTwice = {}
    /\ \A r \in Returned :
          ~(ws.reader.pc = "close" /\ ws.reader.ch = ws.reqs[r].echo)
              => ws.reqs[r].echo \notin ws.WSPendingRequests

\* A call has timed out and returned, and the reader then looked up a
\* response to it and found no pending request.
C27_Witness ==
    \E r \in Returned :
        /\ ws.reqs[r].err = "request timeout"
        /\ ws.reqs[r].echo \in ws.closed
        /\ ws.reader.pc = "receive"
        /\ ~ws.reader.found
        /\ IsFloat64(ws.reader.resp)
        /\ IntOf(ws.reader.resp) = ws.reqs[r].echo

====
